---- MODULE Spec2Model ----
(***************************************************************************)
(* Rotation core of the rota proxy: the five proxy selectors of            *)
(* core/internal/proxy (rotation.go), their Refresh from the proxy         *)
(* repository, and the rate-limited selector's request-log queries.        *)
(***************************************************************************)
EXTENDS Integers, Sequences, FiniteSets, TLC

VARIABLES
    repo,                 \* proxies table: id -> row
    settings,             \* *models.RotationSettings held by the selector
    method,               \* which selector NewProxySelector built
    proxies,              \* BaseSelector.proxies (snapshot rows, in list order)
    index,                \* RoundRobinSelector.index
    interval,             \* TimeBasedSelector.interval, an int64 of nanoseconds
    maxRequestsPerMinute, \* RateLimitedSelector.maxRequestsPerMinute
    windowSeconds,        \* RateLimitedSelector.windowSeconds
    cacheDuration,        \* RateLimitedSelector.cacheDuration, in seconds
    currentIndex,         \* RateLimitedSelector.currentIndex
    cache,                \* RateLimitedSelector.cache
    cacheExpiry,          \* RateLimitedSelector.cacheExpiry
    now,                  \* wall clock, in seconds
    requestLog,           \* proxy_requests table: record -> number of copies
    sel,                  \* per caller: position and locals of a RateLimitedSelector.Select
    lastSelect,           \* outcome of the most recent completed Select
    lastRefresh,          \* outcome and repository content of the most recent Refresh
    hist,                 \* what the observed Selects returned since the list was last replaced
    server                \* the Server: its state, tasks and selector references

vars == <<repo, settings, method, proxies, index, interval, maxRequestsPerMinute,
          windowSeconds, cacheDuration, currentIndex, cache, cacheExpiry, now,
          requestLog, sel, lastSelect, lastRefresh, hist, server>>

----------------------------------------------------------------------------
(* Bounds of the model *)

NumProxies == 3       \* rows of the proxies table in the selection models
NumFilterProxies == 2 \* rows of the proxies table in the filter model
NumRLProxies == 2     \* rows of the proxies table in the rate-limited model
MaxTime == 3          \* the clock runs from 1 to MaxTime
MaxLog == 2           \* records the request log can hold
MaxHist == 7          \* round-robin results remembered
MaxReloads == 2       \* selectors ReloadSettings builds
MaxPicks == 4         \* observed picks of the rate-limited selector
MaxSyncs == 3         \* Sync calls made
MaxTail == 2          \* pieces of a request path after its first one
MaxCalls == 4         \* Start and Stop calls made on the scheduler
MaxCounted == 2       \* requests counted for one upstream

ProxyIds == 1..NumProxies
Callers == {"c1", "c2"}
Time == 1..MaxTime

\* time.Time{} : before every clock value
ZeroTime == 0

----------------------------------------------------------------------------
(* float64 arithmetic of the success-rate filter.  A float is a record     *)
(* [m |-> 53 bits, most significant first and equal to 1, e |-> exponent   *)
(* of that first bit]; zero is [m |-> <<>>, e |-> 0].                        *)

MantissaBits == 53
DigitBits == 10       \* the arithmetic works on digits of DigitBits bits
DivisionDigits == 8   \* quotient digits kept after the binary point

RECURSIVE IntBits(_)
IntBits(n) == IF n < 2 THEN <<n>> ELSE IntBits(n \div 2) \o <<n % 2>>

RECURSIVE BitsToInt(_)
BitsToInt(b) ==
    IF Len(b) = 0 THEN 0
    ELSE 2 * BitsToInt(SubSeq(b, 1, Len(b) - 1)) + b[Len(b)]

Pow2(k) == BitsToInt(<<1>> \o [i \in 1..k |-> 0])

DigitBase == Pow2(DigitBits)

Zeros(n) == [i \in 1..n |-> 0]

\* the bits of a sequence of digits, most significant first
DigitsToBits(d) ==
    [j \in 1..(DigitBits * Len(d)) |->
        (d[((j - 1) \div DigitBits) + 1]
            \div Pow2((DigitBits - 1) - ((j - 1) % DigitBits))) % 2]

\* the digits of a bit sequence whose length is a multiple of DigitBits
BitsToDigits(b) ==
    [k \in 1..(Len(b) \div DigitBits) |->
        BitsToInt(SubSeq(b, DigitBits * (k - 1) + 1, DigitBits * k))]

\* the first n digits of rem/r after the point (rem < r)
RECURSIVE DivDigits(_, _, _)
DivDigits(rem, r, n) ==
    IF n = 0 THEN <<>>
    ELSE <<(rem * DigitBase) \div r>> \o DivDigits((rem * DigitBase) % r, r, n - 1)

\* the remainder left after those n digits
RECURSIVE DivRem(_, _, _)
DivRem(rem, r, n) ==
    IF n = 0 THEN rem ELSE DivRem((rem * DigitBase) % r, r, n - 1)

\* d * 100 + c on digit sequences (last digit least significant); the carry
\* out becomes the first digit
RECURSIVE MulDigits100(_, _)
MulDigits100(d, c) ==
    IF Len(d) = 0 THEN <<c>>
    ELSE LET t == d[Len(d)] * 100 + c
         IN  MulDigits100(SubSeq(d, 1, Len(d) - 1), t \div DigitBase)
             \o <<t % DigitBase>>

StripZeros(b) ==
    IF \A j \in 1..Len(b) : b[j] = 0 THEN <<>>
    ELSE LET f == CHOOSE j \in 1..Len(b) :
                      b[j] = 1 /\ \A i \in 1..(j - 1) : b[i] = 0
         IN  SubSeq(b, f, Len(b))

\* b + 1 on bit sequences; the result is one longer when the carry runs out
Inc(b) ==
    IF \A j \in 1..Len(b) : b[j] = 1 THEN <<1>> \o Zeros(Len(b))
    ELSE LET z == CHOOSE j \in 1..Len(b) :
                      b[j] = 0 /\ \A i \in (j + 1)..Len(b) : b[i] = 1
         IN  [j \in 1..Len(b) |-> IF j < z THEN b[j] ELSE IF j = z THEN 1 ELSE 0]

\* round to nearest, ties to even: bits is the exact value's expansion with
\* the first bit of weight 2^e, sticky says that nonzero bits follow it
RoundToFloat(bits, e, sticky) ==
    LET s    == StripZeros(bits)
        lead == e - (Len(bits) - Len(s))
    IN  IF Len(s) = 0 THEN [m |-> <<>>, e |-> 0]
        ELSE LET p    == s \o Zeros(MantissaBits + 1)
                 m    == SubSeq(p, 1, MantissaBits)
                 rb   == p[MantissaBits + 1]
                 rest == \/ sticky
                         \/ \E j \in (MantissaBits + 2)..Len(p) : p[j] = 1
                 up   == rb = 1 /\ (rest \/ m[MantissaBits] = 1)
                 r    == IF up THEN Inc(m) ELSE m
             IN  IF Len(r) > MantissaBits
                 THEN [m |-> SubSeq(r, 1, MantissaBits), e |-> lead + 1]
                 ELSE [m |-> r, e |-> lead]

\* float64(s) / float64(r) for small non-negative s and positive r
FloatDiv(s, r) ==
    LET ib == IntBits(s \div r)
    IN  RoundToFloat(ib \o DigitsToBits(DivDigits(s % r, r, DivisionDigits)),
                     Len(ib) - 1,
                     DivRem(s % r, r, DivisionDigits) # 0)

\* f * 100
FloatTimes100(f) ==
    IF Len(f.m) = 0 THEN f
    ELSE LET pad == DigitBits - (MantissaBits % DigitBits)
             p   == DigitsToBits(MulDigits100(BitsToDigits(Zeros(pad) \o f.m), 0))
         IN  \* the last bit of p has the weight of the last bit of f.m
             RoundToFloat(p, (f.e - (MantissaBits - 1)) + (Len(p) - 1), FALSE)

\* the largest integer not above f (f >= 0)
FloatFloor(f) ==
    IF Len(f.m) = 0 \/ f.e < 0 THEN 0
    ELSE BitsToInt(SubSeq(f.m \o Zeros(f.e), 1, f.e + 1))

\* successRate := (float64(p.SuccessfulRequests) / float64(p.Requests)) * 100
successRate(successful, requests) == FloatTimes100(FloatDiv(successful, requests))

----------------------------------------------------------------------------
(* The proxies table and the rotation settings *)

Statuses == {"active", "idle", "failed"}

\* lifetime counters and average response time a row can carry
StatProfiles ==
    { [requests |-> 0,  successfulRequests |-> 0,  avgResponseTime |-> 100],
      [requests |-> 50, successfulRequests |-> 28, avgResponseTime |-> 100],
      [requests |-> 50, successfulRequests |-> 29, avgResponseTime |-> 100],
      [requests |-> 50, successfulRequests |-> 30, avgResponseTime |-> 300] }

\* addresses are distinct and do not follow the ids
AddressOf(id) == 100 - id
ProtocolOf(id) == IF id % 2 = 1 THEN "http" ELSE "socks5"

Row(id, status, prof) ==
    [id |-> id, address |-> AddressOf(id), protocol |-> ProtocolOf(id),
     status |-> status, requests |-> prof.requests,
     successfulRequests |-> prof.successfulRequests,
     avgResponseTime |-> prof.avgResponseTime]

\* the float64 success rates of the counters that occur, computed once
RateFloor ==
    [p \in {q \in StatProfiles : q.requests > 0} |->
        FloatFloor(successRate(p.successfulRequests, p.requests))]

StatsOf(row) ==
    [requests |-> row.requests, successfulRequests |-> row.successfulRequests,
     avgResponseTime |-> row.avgResponseTime]

\* a filter that drops the rows above the threshold instead of those below
RateAbove(row, minRate) == RateFloor[StatsOf(row)] > minRate

\* successRate < settings.MinSuccessRate, for a whole-number MinSuccessRate:
\* f < float64(k) iff floor(f) < k
RateBelow(row, minRate) == RateFloor[StatsOf(row)] < minRate

-----------------------------------------------------------------------------
(* 64-bit integers: Go's int and int64 (time.Duration), as eight bytes in  *)
(* two's complement, least significant first; arithmetic wraps             *)

ByteBits == 8
Byte == Pow2(ByteBits)
Int64Bytes == 8
NanosPerSecond == 1000000000
Thousand == 1000

\* the low k bytes of a natural number
RECURSIVE ToBytes(_, _)
ToBytes(n, k) == IF k = 0 THEN <<>> ELSE <<n % Byte>> \o ToBytes(n \div Byte, k - 1)

\* a + b + carry on bytes k.., the carry out of the last byte dropped
RECURSIVE AddFrom(_, _, _, _)
AddFrom(a, b, k, carry) ==
    IF k > Int64Bytes THEN <<>>
    ELSE LET sum == a[k] + b[k] + carry
         IN  <<sum % Byte>> \o AddFrom(a, b, k + 1, sum \div Byte)

Add64(a, b) == AddFrom(a, b, 1, 0)

\* -a: every bit inverted, plus one
Neg64(a) == Add64([k \in 1..Int64Bytes |-> (Byte - 1) - a[k]], ToBytes(1, Int64Bytes))

\* the int64 of a small integer
Int64(n) == IF n >= 0 THEN ToBytes(n, Int64Bytes) ELSE Neg64(ToBytes(-n, Int64Bytes))

IsNegative(a) == a[Int64Bytes] >= Byte \div 2
IsZero(a) == \A k \in 1..Int64Bytes : a[k] = 0

\* a[1]*b[k] + a[2]*b[k-1] + ... + a[k]*b[1]
RECURSIVE ColumnSum(_, _, _, _)
ColumnSum(a, b, k, i) ==
    IF i > k THEN 0 ELSE a[i] * b[k + 1 - i] + ColumnSum(a, b, k, i + 1)

\* the low eight bytes of a * b
RECURSIVE MulFrom(_, _, _, _)
MulFrom(a, b, k, carry) ==
    IF k > Int64Bytes THEN <<>>
    ELSE LET col == ColumnSum(a, b, k, 1) + carry
         IN  <<col % Byte>> \o MulFrom(a, b, k + 1, col \div Byte)

Mul64(a, b) == MulFrom(a, b, 1, 0)

\* hi * 10^9 + lo, for integers that a single literal cannot hold
Int64Of(hi, lo) == Add64(Mul64(Int64(hi), Int64(NanosPerSecond)), Int64(lo))

\* the quotient of the unsigned bytes a by a small d, from byte k down
RECURSIVE DivFrom(_, _, _, _)
DivFrom(a, k, r, d) ==
    IF k = 0 THEN <<>>
    ELSE LET cur == r * Byte + a[k]
         IN  DivFrom(a, k - 1, cur % d, d) \o <<cur \div d>>

DivSmall(a, d) == DivFrom(a, Int64Bytes, 0, d)

\* the magnitude of a, as unsigned bytes
Magnitude(a) == IF IsNegative(a) THEN Neg64(a) ELSE a

\* the bytes above the low three are zero: the magnitude is below 2^24
FitsSmall(a) == \A k \in 4..Int64Bytes : a[k] = 0
SmallOf(a) == a[1] + Byte * a[2] + Byte * Byte * a[3]

\* Go's integer division and remainder, which truncate toward zero
Quot(a, b) ==
    LET abs(x) == IF x < 0 THEN -x ELSE x
        q == abs(a) \div abs(b)
    IN  IF (a < 0) # (b < 0) THEN -q ELSE q
Rem(a, b) == a - b * Quot(a, b)

RotationSettings(m, iv, maxReq, win, protos, maxRt, minRate) ==
    [Method |-> m, Interval |-> Int64(iv), MaxRequestsPerMinute |-> maxReq,
     WindowSeconds |-> win, AllowedProtocols |-> protos,
     MaxResponseTime |-> maxRt, MinSuccessRate |-> minRate,
     RemoveUnhealthy |-> TRUE]

----------------------------------------------------------------------------
(* BaseSelector.loadActiveProxiesWithSettings *)

\* the filters applied to a scanned row when settings are given
PassesSettings(row, s) ==
    /\ Len(s.AllowedProtocols) > 0 =>
           \E k \in 1..Len(s.AllowedProtocols) : row.protocol = s.AllowedProtocols[k]
    /\ ~(s.MaxResponseTime > 0 /\ row.avgResponseTime > s.MaxResponseTime)
    /\ ~(s.MinSuccessRate > 0 /\ row.requests > 0 /\ RateBelow(row, s.MinSuccessRate))

\* WHERE status IN ('active', 'idle')
StatusSelected(row) == row.status \in {"active", "idle"}

\* ORDER BY address
RECURSIVE SortByAddress(_)
SortByAddress(rows) ==
    IF rows = {} THEN <<>>
    ELSE LET first == CHOOSE r \in rows : \A o \in rows : r.address <= o.address
         IN  <<first>> \o SortByAddress(rows \ {first})

\* dbOk = FALSE: the query or a row scan fails ("failed to load proxies",
\* "failed to scan proxy"); no row left: "no active or idle proxies found
\* matching filters"
loadActiveProxiesWithSettings(rp, s, dbOk) ==
    IF ~dbOk THEN [err |-> TRUE, why |-> "LoadError", proxies |-> <<>>]
    ELSE LET rows == SortByAddress({rp[i] : i \in {j \in DOMAIN rp : StatusSelected(rp[j])}})
             kept == SelectSeq(rows, LAMBDA r : PassesSettings(r, s))
         IN  IF Len(kept) = 0 THEN [err |-> TRUE, why |-> "NoneFound", proxies |-> <<>>]
             ELSE [err |-> FALSE, why |-> "ok", proxies |-> kept]

----------------------------------------------------------------------------
(* NewProxySelector and the constructors *)

\* a factory that knows the underscore spellings only
ExactSelectorOf(m) ==
    IF m \in {"random", "roundrobin", "least_conn", "time_based", "rate_limited"}
    THEN m ELSE "random"

SelectorOf(m) ==
    CASE m = "random" -> "random"
      [] m \in {"roundrobin", "round-robin"} -> "roundrobin"
      [] m \in {"least_conn", "least-conn", "least_connections"} -> "least_conn"
      [] m \in {"time_based", "time-based"} -> "time_based"
      [] m \in {"rate_limited", "rate-limited"} -> "rate_limited"
      [] OTHER -> "random"

DefaultInterval == 120
DefaultMaxRequests == 30
DefaultWindowSeconds == 60

\* every return of NewProxySelector carries a nil error
NewProxySelector(s) == [selector |-> SelectorOf(s.Method), err |-> FALSE]

\* interval := settings.TimeBased.Interval; if interval <= 0 { interval = 120 }
TimeBasedInterval(s) ==
    IF IsNegative(s.Interval) \/ IsZero(s.Interval) THEN Int64(DefaultInterval)
    ELSE s.Interval

\* time.Duration(intervalSeconds) * time.Second: an int64 product, in
\* nanoseconds
DurationOf(intervalSeconds) == Mul64(intervalSeconds, Int64(NanosPerSecond))
RateLimitedMaxRequests(s) ==
    IF s.MaxRequestsPerMinute <= 0 THEN DefaultMaxRequests ELSE s.MaxRequestsPerMinute
\* a factory that passes the configured window on as it is
ConfiguredWindow(s) == s.WindowSeconds

RateLimitedWindow(s) ==
    IF s.WindowSeconds <= 0 THEN DefaultWindowSeconds ELSE s.WindowSeconds

\* a cache that always lives two seconds
TwoSeconds(win) == 2

\* NewRateLimitedSelector: 2 seconds, or windowSeconds/5 for windows under 10
CacheDurationOf(win) == IF win < 10 THEN Quot(win, 5) ELSE 2

NoSelect == [kind |-> "none", id |-> 0]

\* lastRefresh: the result of the most recent Refresh while no Select has
\* begun after it, and whether no Select was in progress when it returned
NoRefresh == [result |-> "none", quiet |-> FALSE]
\* a caller outside Select; the locals of a call in progress:
\*   allProxies, cacheValid, availableProxies : the locals of Select
\*   storeErr : which query of getAvailableProxies failed, if any
\*   expired  : the call began with a non-empty cache whose cacheExpiry
\*              time.Now() was not before
\*   fresh    : no Refresh replaced the list since the call began
IdleCall == [pc |-> "idle", allProxies |-> <<>>, cacheValid |-> FALSE,
             availableProxies |-> <<>>, storeErr |-> "none",
             expired |-> FALSE, fresh |-> FALSE, result |-> NoSelect]

\* the tasks startBackgroundTasks starts
CleanupOnly == {"cleanup"}
StartedTasks == {"refresh", "cleanup"}

\* a server that stops when its first Refresh fails
StopsOnError(err) == IF err THEN "failed" ELSE "running"

\* New after the initial Refresh: the error is logged, the server goes on
AfterInitialRefresh(err) == "running"

Reloaders == {"r1", "r2"}
NoReload == [pc |-> "idle", new |-> 0]

\* the Server:
\*   state    : "new" before New, "failed" when New returned an error,
\*              "running" when New returned the server, "down" after
\*              Shutdown
\*   tasks    : the periodic tasks started
\*   startup  : the result of the initial Refresh
\*   everOk   : a periodic Refresh of the handler's selector returned ok
\*   selector : the selector object s.selector refers to
\*   handler  : the selector object s.handler.selector refers to
\*   written  : the objects ever assigned to s.selector
\*   objects  : the selector objects other than the handler's, by number
\*   built    : the number of selector objects ReloadSettings built
\*   reload   : per caller of ReloadSettings, its position and new selector
\*   reloaded : some ReloadSettings returned nil
\*   refreshed: the object the refresh task refreshed last, NoObject when
\*              it has not run since s.selector or s.handler.selector changed
\*   handlerSettings : s.handler.settings
\*   stopChan : s.stopChan, "open" or "closed"
\*   ticker   : per task, its time.Ticker: a tick waits in the channel
\*              (capacity 1) or not; Stop was called or not
\*   loop     : per task, its goroutine: in its select, or returned
\*   cleaned  : CleanupLimiters has run
\*   shutdown : the position of the Shutdown call
\*   sync     : the Webshare sync service of the process, its callers
\*              and the answers of the manual sync endpoint
\*   http     : the last request the listener handled
\*   job      : one Sync call of the sync service, step by step
\*   scheduler: the WebshareScheduler of the process
NoObject == -1

\* the callers of WebshareSyncService.Sync: the goroutines the manual sync
\* endpoint starts for two requests, and the scheduler
Requests == {"h1", "h2"}
SyncCallers == Requests \cup {"sched"}

StatusOK == 200
StatusBadRequest == 400
StatusConflict == 409

NoRun == [pc |-> "idle", result |-> "none"]
NoResponse == [code |-> 0, status |-> "none"]

\* WebshareSyncService and what is seen of it:
\*   hasAPIKey : WebshareHandler.hasAPIKey (the service exists)
\*   isSyncing : s.isSyncing
\*   statuses  : sync status records created
\*   inventory : Sync runs that went through the proxy inventory
\*   calls     : Sync calls made
\*   run       : per caller, the position of its Sync call and its result
\*   resp      : per request, the answer of the endpoint
NewSync ==
    [hasAPIKey |-> FALSE, isSyncing |-> FALSE, statuses |-> 0, inventory |-> 0,
     calls |-> 0, run |-> [c \in SyncCallers |-> NoRun],
     resp |-> [h \in Requests |-> NoResponse]]

\* what the listener did with the last request: the request, what the two
\* middlewares answered, the calls made in order, the response, and the
\* request handed to the forwarding handler
NoForward == [host |-> "none", path |-> <<>>, query |-> <<>>]
NoExchange == [req |-> [kind |-> "none", path |-> <<>>, query |-> <<>>],
               auth |-> "none", limit |-> "none", trace |-> <<>>,
               resp |-> "none", out |-> NoForward]

\* "ProxyAddress:Port" of the proxies the provider lists and the inventory
\* holds, in the order both lists are walked
AddressOrder == <<"a:1", "b:2">>
Addresses == {AddressOrder[k] : k \in 1..Len(AddressOrder)}

\* a nullable text column holding JSON: NULL, or the array it encodes
Json(v) == [set |-> TRUE, val |-> v]
NullColumn == [set |-> FALSE, val |-> <<>>]

\* json.Unmarshal into a slice that starts empty; a NULL column is skipped
Unmarshal(column) == IF column.set THEN column.val ELSE <<>>

\* arrayToJSON: "[]" for an empty slice, else its encoding
arrayToJSON(arr) == IF Len(arr) = 0 THEN Json(<<>>) ELSE Json(arr)

\* UpdateSyncStatus: the six columns are set to the six arguments
UpdateSyncStatus(status, errorJSON, logsJSON, ipRemoved, ipAdded, ipReplaced) ==
    [status |-> status, error |-> errorJSON, logs |-> logsJSON,
     ipRemoved |-> ipRemoved, ipAdded |-> ipAdded, ipReplaced |-> ipReplaced]

\* no row
NoRow == UpdateSyncStatus("none", NullColumn, NullColumn, NullColumn,
                          NullColumn, NullColumn)

\* the goroutines that write a sync status record: the Sync call and the
\* two replacement requests it starts
Replacements == {"unhealthy", "failed"}
Writers == {"sync"} \cup Replacements

\* one Sync call past its guard:
\*   pc          : the position of the call
\*   row         : the webshare_sync_status row of the call, NoRow before
\*                 CreateSyncStatus
\*   provider    : per address, what ListProxies returns of it
\*   rota        : per address, the row of the proxies table
\*   rotaProxies : the addresses the List call of line 100 returned
\*   webshareUnhealthyIPs, newProxies, ipRemoved, ipAdded, ipReplaced,
\*   rotaFailedIPs : the locals of the call
\*   erred       : a repository or API call of the run returned an error
\*   result      : what Sync returned
\*   ops         : per writer, the record operations it still has to make
\*   read        : per writer, the row its GetSyncByID returned
\*   go          : per replacement goroutine, its position
NoJob ==
    [pc |-> "create", row |-> NoRow,
     provider |-> [a \in Addresses |-> "absent"],
     rota |-> [a \in Addresses |-> "absent"],
     rotaProxies |-> {}, webshareUnhealthyIPs |-> <<>>, newProxies |-> <<>>,
     ipRemoved |-> <<>>, ipAdded |-> <<>>, ipReplaced |-> <<>>,
     rotaFailedIPs |-> <<>>, erred |-> FALSE, err |-> "nil",
     result |-> "none",
     ops |-> [w \in Writers |-> <<>>], read |-> [w \in Writers |-> NoRow],
     go |-> [g \in Replacements |-> "none"]]

\* a *time.Ticker: nil, or made; a tick waits in its channel or not; Stop
\* was called on it or not
NilTicker == [made |-> FALSE, pending |-> FALSE, stopped |-> FALSE]

\* NewWebshareScheduler, and what is seen of the scheduler:
\*   interval : s.interval, an int64 of nanoseconds
\*   ticker   : s.ticker
\*   stopChan : s.stopChan, "open" or "closed"
\*   running  : s.running
\*   runs     : the goroutines Start started, each "initial" (in the first
\*              select of run), "loop" (in the select of the for loop),
\*              "sync" (in triggerSync) or "exited"
\*   ctx      : the context given to Start, "live" or "cancelled"
\*   panicked : a call panicked
\*   calls    : Start and Stop calls made
\*   last     : the last of them
NewWebshareScheduler(intervalSeconds) ==
    [interval |-> DurationOf(intervalSeconds), ticker |-> NilTicker,
     stopChan |-> "open", running |-> FALSE, runs |-> <<>>, ctx |-> "live",
     panicked |-> FALSE, calls |-> 0, last |-> "none"]

NoTicker == [pending |-> FALSE, stopped |-> FALSE]
NoSettings == [Method |-> "none"]

NewServer ==
    [state |-> "new", tasks |-> {}, startup |-> "none", everOk |-> FALSE,
     selector |-> 0, handler |-> 0, written |-> {0}, objects |-> <<>>,
     built |-> 0, reload |-> [r \in Reloaders |-> NoReload], reloaded |-> FALSE,
     refreshed |-> NoObject, handlerSettings |-> NoSettings,
     stopChan |-> "open", ticker |-> [t \in StartedTasks |-> NoTicker],
     loop |-> [t \in StartedTasks |-> "select"], cleaned |-> FALSE,
     shutdown |-> "idle", sync |-> NewSync, http |-> NoExchange,
     job |-> NoJob, scheduler |-> NewWebshareScheduler(Int64(0)),
     authMiddleware |-> [enabled |-> FALSE], rateLimitMw |-> [enabled |-> FALSE]]

\* a server New has returned
RunningServer == [NewServer EXCEPT !.state = "running", !.tasks = StartedTasks]

\* the selector NewProxySelector(repo, s) returns
Built(s) ==
    [settings |-> s,
     method |-> NewProxySelector(s).selector,
     proxies |-> <<>>,
     index |-> 0,
     interval |-> DurationOf(TimeBasedInterval(s)),
     maxRequestsPerMinute |-> RateLimitedMaxRequests(s),
     windowSeconds |-> RateLimitedWindow(s),
     cacheDuration |-> CacheDurationOf(RateLimitedWindow(s)),
     currentIndex |-> 0,
     cache |-> <<>>,
     cacheExpiry |-> ZeroTime]

\* the state right after NewProxySelector(repo, settings); the tables are
\* the database's
Constructed(s) ==
    /\ settings = s
    /\ method = Built(s).method
    /\ proxies = Built(s).proxies
    /\ index = Built(s).index
    /\ interval = Built(s).interval
    /\ maxRequestsPerMinute = Built(s).maxRequestsPerMinute
    /\ windowSeconds = Built(s).windowSeconds
    /\ cacheDuration = Built(s).cacheDuration
    /\ currentIndex = Built(s).currentIndex
    /\ cache = Built(s).cache
    /\ cacheExpiry = Built(s).cacheExpiry
    /\ now = 1
    /\ sel = [c \in Callers |-> IdleCall]
    /\ lastSelect = NoSelect
    /\ lastRefresh = NoRefresh
    /\ hist = <<>>

----------------------------------------------------------------------------
(* Refresh *)

rlVars == <<currentIndex, cache, cacheExpiry, requestLog, sel>>
cfgVars == <<settings, method, interval, maxRequestsPerMinute, windowSeconds,
             cacheDuration, server>>

\* every Refresh call is recorded with its result
Refreshed(r, quiet) ==
    lastRefresh' = [result |-> r.why, quiet |-> quiet]

\* a Select begins
SelectBegun == lastRefresh' = NoRefresh

\* the Refresh of RandomSelector, LeastConnectionsSelector and TimeBasedSelector
BaseRefresh(m) ==
    /\ method = m
    /\ \E dbOk \in BOOLEAN :
          LET r == loadActiveProxiesWithSettings(repo, settings, dbOk)
          IN  /\ Refreshed(r, TRUE)
              /\ proxies' = IF r.err THEN proxies ELSE r.proxies
    /\ UNCHANGED <<repo, cfgVars, index, rlVars, now, lastSelect, hist>>

RandomRefresh == BaseRefresh("random")
LeastConnRefresh == BaseRefresh("least_conn")
TimeBasedRefresh == BaseRefresh("time_based")

\* a Refresh that leaves the index where it is
KeptIndex(idx, n) == idx

\* if s.index >= len(s.proxies) { s.index = 0 }
ResetIndex(idx, n) == IF idx >= n THEN 0 ELSE idx

RoundRobinRefresh ==
    /\ method = "roundrobin"
    /\ \E dbOk \in BOOLEAN :
          LET r == loadActiveProxiesWithSettings(repo, settings, dbOk)
          IN  /\ Refreshed(r, TRUE)
              /\ IF r.err THEN UNCHANGED <<proxies, index, hist>>
                 ELSE /\ proxies' = r.proxies
                      /\ index' = ResetIndex(index, Len(r.proxies))
                      /\ hist' = <<>>
    /\ UNCHANGED <<repo, cfgVars, rlVars, now, lastSelect>>

----------------------------------------------------------------------------
(* Select of the four selectors that hold the lock for the whole call *)

Returned(row) == [kind |-> "proxy", id |-> row.id]
NoUpstream == [kind |-> "NoUpstream", id |-> 0]
AllRateLimited == [kind |-> "AllRateLimited", id |-> 0]

\* rand.Int(rand.Reader, len): any position; rand.Reader does not fail
RandomSelect ==
    /\ method = "random"
    /\ IF Len(proxies) = 0 THEN lastSelect' = NoUpstream
       ELSE \E n \in 0..(Len(proxies) - 1) : lastSelect' = Returned(proxies[n + 1])
    /\ UNCHANGED <<repo, cfgVars, proxies, index, rlVars, now, hist>>
    /\ SelectBegun

\* an index that advances by two
SkippingIndex(idx, n) == (idx + 2) % n

\* s.index = (s.index + 1) % len(s.proxies)
NextIndex(idx, n) == (idx + 1) % n

RoundRobinSelect ==
    /\ method = "roundrobin"
    /\ Len(hist) < MaxHist
    /\ IF Len(proxies) = 0
       THEN /\ lastSelect' = NoUpstream
            /\ UNCHANGED <<index, hist>>
       ELSE /\ lastSelect' = Returned(proxies[index + 1])
            /\ index' = NextIndex(index, Len(proxies))
            /\ hist' = Append(hist, proxies[index + 1].id)
    /\ SelectBegun
    /\ UNCHANGED <<repo, cfgVars, proxies, rlVars, now>>

\* the last row with the fewest requests
RECURSIVE LastMinProxy(_, _)
LastMinProxy(best, rest) ==
    IF Len(rest) = 0 THEN best
    ELSE LastMinProxy(IF Head(rest).requests <= best.requests THEN Head(rest) ELSE best,
                      Tail(rest))

\* the first row with the fewest requests
RECURSIVE MinProxy(_, _)
MinProxy(best, rest) ==
    IF Len(rest) = 0 THEN best
    ELSE MinProxy(IF Head(rest).requests < best.requests THEN Head(rest) ELSE best,
                  Tail(rest))

\* a Select that looks up the counters the table holds now
LiveConnSelect ==
    /\ method = "least_conn"
    /\ lastSelect' =
          IF Len(proxies) = 0 THEN NoUpstream
          ELSE LET live == [k \in 1..Len(proxies) |-> repo[proxies[k].id]]
               IN  Returned(MinProxy(live[1], Tail(live)))
    /\ UNCHANGED <<repo, cfgVars, proxies, index, rlVars, now, hist>>
    /\ SelectBegun

LeastConnSelect ==
    /\ method = "least_conn"
    /\ lastSelect' = IF Len(proxies) = 0 THEN NoUpstream
                     ELSE Returned(MinProxy(proxies[1], Tail(proxies)))
    /\ UNCHANGED <<repo, cfgVars, proxies, index, rlVars, now, hist>>
    /\ SelectBegun

\* int64(d.Seconds()): Seconds() adds float64(d / Second) and
\* float64(d % Second) / 1e9, and the conversion truncates the sum toward
\* zero; the sum carries the whole seconds of d (the float64 keeps the
\* fraction apart from the next integer for every fraction up to
\* 0.999999 and every d). The result is a sign and a magnitude.
SecondsOf(d) ==
    LET mag == DivSmall(DivSmall(DivSmall(Magnitude(d), Thousand), Thousand), Thousand)
    IN  [neg |-> IsNegative(d), mag |-> mag]

\* now / int64(s.interval.Seconds()) for a divisor other than zero and a
\* time below 2^24
IntervalCount(t, secs) ==
    IF ~FitsSmall(secs.mag) THEN 0
    ELSE Quot(t, IF secs.neg THEN -SmallOf(secs.mag) ELSE SmallOf(secs.mag))

\* index := int(intervalCount) % len(s.proxies)
TimeSlot(t, d, n) == Rem(IntervalCount(t, SecondsOf(d)), n)

\* a run-time panic: integer divide by zero, or index out of range
Panicked == [kind |-> "panic", id |-> 0]

TimeBasedSelect ==
    /\ method = "time_based"
    /\ lastSelect' =
          IF Len(proxies) = 0 THEN NoUpstream
          ELSE IF IsZero(SecondsOf(interval).mag) THEN Panicked
          ELSE IF TimeSlot(now, interval, Len(proxies)) < 0 THEN Panicked
          ELSE Returned(proxies[TimeSlot(now, interval, Len(proxies)) + 1])
    /\ UNCHANGED <<repo, cfgVars, proxies, index, rlVars, now, hist>>
    /\ SelectBegun

----------------------------------------------------------------------------
(* Environment: the clock and the health checker *)

Tick ==
    /\ now < MaxTime
    /\ now' = now + 1
    /\ UNCHANGED <<repo, cfgVars, proxies, index, rlVars, lastSelect, lastRefresh, hist>>

\* an upstream among ids is marked failed, or recovers
SetStatus(ids) ==
    /\ \E id \in ids : \E st \in {"active", "failed"} :
          /\ repo[id].status # st
          /\ repo' = [repo EXCEPT ![id].status = st]
    /\ UNCHANGED <<cfgVars, proxies, index, rlVars, now, lastSelect, lastRefresh, hist>>

\* increment_counters(upstream_id, success, latency_ms) of the repository,
\* for a request through upstream id: one more request, one more
\* successful request when it succeeded (outcomes: whether it may have
\* succeeded, failed, or either); the latency is the average
IncrementCounters(id, outcomes) ==
    /\ repo[id].requests < MaxCounted
    /\ \E success \in outcomes :
          repo' = [repo EXCEPT ![id].requests = @ + 1,
                               ![id].successfulRequests = IF success THEN @ + 1 ELSE @]
    /\ UNCHANGED <<cfgVars, proxies, index, rlVars, now, lastSelect, lastRefresh, hist>>

----------------------------------------------------------------------------
(* The request log (proxy_requests) and the queries of the rate-limited    *)
(* selector                                                                *)

LogSize == LET RECURSIVE Sum(_)
               Sum(S) == IF S = {} THEN 0
                         ELSE LET r == CHOOSE x \in S : TRUE
                              IN  requestLog[r] + Sum(S \ {r})
           IN  Sum(DOMAIN requestLog)

\* number of records of proxy id with timestamp >= t - win, all of them or
\* the successful ones only
CountIn(lg, id, t, win, successOnly) ==
    LET hits == {r \in DOMAIN lg : /\ r.id = id
                                   /\ r.ts >= t - win
                                   /\ (successOnly => r.success)}
        RECURSIVE Sum(_)
        Sum(S) == IF S = {} THEN 0
                  ELSE LET r == CHOOSE x \in S : TRUE IN lg[r] + Sum(S \ {r})
    IN  Sum(hits)

Ids(rows) == {rows[k].id : k \in 1..Len(rows)}

\* SELECT proxy_id ... WHERE proxy_id = ANY($1) AND timestamp >= NOW() -
\* make_interval(secs => $2) AND success = true GROUP BY proxy_id
\* HAVING COUNT(*) < $3 : a group exists only for a proxy with a row
GroupedQuery(lg, ids, t, win, maxReq) ==
    {id \in ids : /\ CountIn(lg, id, t, win, TRUE) > 0
                  /\ CountIn(lg, id, t, win, TRUE) < maxReq}

\* proxyHasRecentRequests: SELECT COUNT(*) ... WHERE proxy_id = $1 AND
\* timestamp >= NOW() - make_interval(secs => $2); count > 0
proxyHasRecentRequests(lg, id, t, win) == CountIn(lg, id, t, win, FALSE) > 0

\* the tracker appends one record
Appended(lg, rec) ==
    IF rec \in DOMAIN lg THEN [lg EXCEPT ![rec] = @ + 1] ELSE lg @@ (rec :> 1)

----------------------------------------------------------------------------
(* RateLimitedSelector.Select: one action per critical section, and one    *)
(* for the queries of getAvailableProxies                                  *)

InFlight == {c \in Callers : sel[c].pc # "idle"}

\* callers are interchangeable: the second one only calls while the first
\* one is inside Select
MayBegin(c) == c = "c1" \/ sel["c1"].pc # "idle"

\* a validity test that forgets the expiry
NonEmptyCache(t, expiry, cached) == Len(cached) > 0

\* cacheValid := time.Now().Before(s.cacheExpiry) && len(cachedProxies) > 0
CacheValid(t, expiry, cached) == t < expiry /\ Len(cached) > 0

\* the read-locked snapshot and the decisions taken on it; outcomes: what
\* the tracker can record of the request that follows (see SelectReturn)
SelectBegin(c, outcomes) ==
    /\ method = "rate_limited"
    /\ sel[c].pc = "idle"
    /\ MayBegin(c)
    /\ outcomes # {} => LogSize + Cardinality(InFlight) < MaxLog
    /\ LET valid == CacheValid(now, cacheExpiry, cache)
           call  == [IdleCall EXCEPT !.cacheValid = valid, !.fresh = TRUE,
                                     !.expired = ~(now < cacheExpiry) /\ Len(cache) > 0]
       IN  sel' = [sel EXCEPT ![c] =
                IF Len(proxies) = 0
                    THEN [call EXCEPT !.pc = "ret", !.result = NoUpstream,
                                      !.cacheValid = FALSE, !.expired = FALSE]
                ELSE IF valid
                    THEN [call EXCEPT !.pc = "pick", !.availableProxies = cache]
                ELSE [call EXCEPT !.pc = "query", !.allProxies = proxies]]
    /\ SelectBegun
    /\ UNCHANGED <<repo, cfgVars, proxies, index, currentIndex, cache, cacheExpiry,
                   requestLog, now, lastSelect, hist>>

\* whether the loop of getAvailableProxies keeps a proxy that is not in the
\* map: hasRequests, err := proxyHasRecentRequests; err == nil && !hasRequests
KeepsUnlisted(dbOk, hasRequests) == dbOk /\ ~hasRequests

\* the loop of getAvailableProxies over allProxies; failing is the set of
\* proxies whose proxyHasRecentRequests query fails
AvailableOf(all, listed, failing, lg, t, win) ==
    SelectSeq(all, LAMBDA proxy :
        \/ proxy.id \in listed
        \/ KeepsUnlisted(proxy.id \notin failing,
                         proxyHasRecentRequests(lg, proxy.id, t, win)))

\* getAvailableProxies, and the fallback of Select when it returns an error;
\* failures: the queries that can fail in this run, "group" for the grouped
\* query and "recent" for proxyHasRecentRequests
SelectQuery(c, failures) ==
    /\ sel[c].pc = "query"
    /\ LET s      == sel[c]
           listed == GroupedQuery(requestLog, Ids(s.allProxies), now,
                                  windowSeconds, maxRequestsPerMinute)
       IN  \/ \* the grouped query fails: the caller uses all proxies
              /\ "group" \in failures
              /\ sel' = [sel EXCEPT ![c] =
                     [s EXCEPT !.pc = "update", !.storeErr = "group",
                               !.availableProxies = s.allProxies]]
           \/ \E failing \in SUBSET (IF "recent" \in failures
                                       THEN Ids(s.allProxies) \ listed ELSE {}) :
                 sel' = [sel EXCEPT ![c] =
                     [s EXCEPT !.pc = "update",
                               !.storeErr = IF failing = {} THEN "none" ELSE "recent",
                               !.availableProxies =
                                   AvailableOf(s.allProxies, listed, failing,
                                               requestLog, now, windowSeconds)]]
    /\ UNCHANGED <<repo, cfgVars, proxies, index, currentIndex, cache, cacheExpiry,
                   requestLog, now, lastSelect, lastRefresh, hist>>

\* s.cache = availableProxies; s.cacheExpiry = time.Now().Add(s.cacheDuration);
\* then the check for an empty list
SelectUpdate(c) ==
    /\ sel[c].pc = "update"
    /\ cache' = sel[c].availableProxies
    /\ cacheExpiry' = now + cacheDuration
    /\ LET done == [sel[c] EXCEPT !.allProxies = <<>>, !.storeErr = "none"]
       IN  sel' = [sel EXCEPT ![c] =
               IF Len(done.availableProxies) = 0
               THEN [done EXCEPT !.pc = "ret", !.result = AllRateLimited,
                                 !.expired = FALSE]
               ELSE [done EXCEPT !.pc = "pick"]]
    /\ UNCHANGED <<repo, cfgVars, proxies, index, currentIndex, requestLog, now,
                   lastSelect, lastRefresh, hist>>

\* a pick that takes the head of the list whatever the index
HeadOf(idx, avail) == avail[1]

\* availableProxies[s.currentIndex%len(availableProxies)]
PickedAt(idx, avail) == avail[(idx % Len(avail)) + 1]

\* selectedProxy := availableProxies[s.currentIndex%len(availableProxies)]
\* s.currentIndex = (s.currentIndex + 1) % len(availableProxies)
Picked(c) ==
    /\ sel[c].pc = "pick"
    /\ LET avail == sel[c].availableProxies
       IN  /\ sel' = [sel EXCEPT ![c] =
                  [sel[c] EXCEPT !.pc = "ret", !.availableProxies = <<>>,
                                 !.cacheValid = FALSE, !.expired = FALSE,
                                 !.result = Returned(PickedAt(currentIndex, avail))]]
           /\ currentIndex' = NextIndex(currentIndex, Len(avail))
    /\ UNCHANGED <<repo, cfgVars, proxies, index, cache, cacheExpiry, requestLog, now,
                   lastSelect, lastRefresh>>

\* the last critical section of Select
SelectPick(c) == Picked(c) /\ UNCHANGED hist

\* the same critical section, observed: hist takes the list the caller
\* picked from and the upstream it got
RecordedPick(c) ==
    /\ Len(hist) < MaxPicks
    /\ Picked(c)
    /\ hist' = Append(hist, [avail |-> [k \in 1..Len(sel[c].availableProxies) |->
                                           sel[c].availableProxies[k].id],
                             id |-> sel'[c].result.id])

\* Select returns; the caller sends its request through the proxy it got
\* and the usage tracker records the outcome, one of outcomes (none: the
\* tracker records nothing)
SelectReturn(c, outcomes) ==
    /\ sel[c].pc = "ret"
    /\ sel' = [sel EXCEPT ![c] = IdleCall]
    /\ IF sel[c].result.kind = "proxy" /\ outcomes # {}
       THEN \E ok \in outcomes :
               requestLog' = Appended(requestLog,
                                 [id |-> sel[c].result.id, ts |-> now, success |-> ok])
       ELSE UNCHANGED requestLog
    /\ UNCHANGED <<repo, cfgVars, proxies, index, currentIndex, cache, cacheExpiry, now,
                   lastSelect, lastRefresh, hist>>

\* a Refresh that leaves the cached list in place
KeptCache(c) == c

\* the cache after Refresh: s.cache = make([]*models.Proxy, 0)
InvalidatedCache(c) == <<>>

RateLimitedRefresh ==
    /\ method = "rate_limited"
    /\ \E dbOk \in BOOLEAN :
          LET r == loadActiveProxiesWithSettings(repo, settings, dbOk)
          IN  /\ Refreshed(r, InFlight = {})
              /\ IF r.err THEN UNCHANGED <<proxies, currentIndex, cache, cacheExpiry, sel>>
                 ELSE /\ proxies' = r.proxies
                      /\ currentIndex' = ResetIndex(currentIndex, Len(r.proxies))
                      /\ cache' = InvalidatedCache(cache)
                      /\ cacheExpiry' = ZeroTime
                      /\ sel' = [c \in Callers |-> [sel[c] EXCEPT !.fresh = FALSE]]
    /\ UNCHANGED <<repo, cfgVars, index, requestLog, now, lastSelect, hist>>

----------------------------------------------------------------------------
(* The server: New, the periodic refresh task, ReloadSettings *)

\* the fields of the selector the handler uses
Current ==
    [settings |-> settings, method |-> method, proxies |-> proxies, index |-> index,
     interval |-> interval, maxRequestsPerMinute |-> maxRequestsPerMinute,
     windowSeconds |-> windowSeconds, cacheDuration |-> cacheDuration,
     currentIndex |-> currentIndex, cache |-> cache, cacheExpiry |-> cacheExpiry]

\* selector o becomes the selector the handler uses
Install(o) ==
    /\ settings' = o.settings
    /\ method' = o.method
    /\ proxies' = o.proxies
    /\ index' = o.index
    /\ interval' = o.interval
    /\ maxRequestsPerMinute' = o.maxRequestsPerMinute
    /\ windowSeconds' = o.windowSeconds
    /\ cacheDuration' = o.cacheDuration
    /\ currentIndex' = o.currentIndex
    /\ cache' = o.cache
    /\ cacheExpiry' = o.cacheExpiry

\* a Refresh that takes the list found also when it is empty
EmptyingRefresh(o, r) ==
    IF r.why = "LoadError" THEN o ELSE [o EXCEPT !.proxies = r.proxies]

\* selector o after its Refresh loaded r (the Refresh methods above, on a
\* selector given as a record)
ObjectRefresh(o, r) ==
    IF r.err THEN o
    ELSE IF o.method = "roundrobin"
        THEN [o EXCEPT !.proxies = r.proxies,
                       !.index = ResetIndex(o.index, Len(r.proxies))]
    ELSE IF o.method = "rate_limited"
        THEN [o EXCEPT !.proxies = r.proxies,
                       !.currentIndex = ResetIndex(o.currentIndex, Len(r.proxies)),
                       !.cache = InvalidatedCache(o.cache),
                       !.cacheExpiry = ZeroTime]
    ELSE [o EXCEPT !.proxies = r.proxies]

\* New: settings loaded (or not), selector built, initial Refresh whose
\* error is only logged, handler built around the selector, tasks started
New ==
    /\ server.state = "new"
    /\ \E settingsOk \in BOOLEAN : \E dbOk \in BOOLEAN :
       \E r \in {loadActiveProxiesWithSettings(repo, settings, dbOk)} :
              IF ~settingsOk \/ NewProxySelector(settings).err
              THEN /\ server' = [server EXCEPT !.state = "failed"]
                   /\ UNCHANGED <<settings, method, proxies, index, interval,
                                  maxRequestsPerMinute, windowSeconds, cacheDuration,
                                  currentIndex, cache, cacheExpiry, lastRefresh>>
              ELSE /\ \E o \in {ObjectRefresh(Built(settings), r)} : Install(o)
                   /\ Refreshed(r, TRUE)
                   /\ server' =
                         [server EXCEPT
                            !.startup = r.why,
                            !.handlerSettings = settings,
                            !.state = AfterInitialRefresh(r.err),
                            !.tasks = IF AfterInitialRefresh(r.err) = "running"
                                      THEN StartedTasks ELSE {}]
    /\ UNCHANGED <<repo, now, requestLog, sel, lastSelect, hist>>

\* a Select reaches the selector through the handler of a running server
Serving == server.state = "running"

\* s.selector.Refresh(ctx) of the refresh task on the selector the handler
\* uses; dbOks: whether the database answers; srv: the server when the task
\* got its tick
RefreshTask(dbOks, srv) ==
    /\ server.state \in {"running", "down"}
    /\ "refresh" \in server.tasks
    /\ server.handler \in server.written
    /\ \E dbOk \in dbOks :
       \E r \in {loadActiveProxiesWithSettings(repo, settings, dbOk)} :
       \E o \in {ObjectRefresh(Current, r)} :
              /\ Install(o)
              /\ Refreshed(r, InFlight = {})
              /\ hist' = IF ~r.err /\ method = "roundrobin" THEN <<>> ELSE hist
              /\ sel' = IF ~r.err /\ method = "rate_limited"
                        THEN [c \in Callers |-> [sel[c] EXCEPT !.fresh = FALSE]]
                        ELSE sel
              /\ server' = [srv EXCEPT !.everOk = @ \/ ~r.err,
                                       !.refreshed = server.handler]
    /\ UNCHANGED <<repo, now, requestLog, lastSelect>>

\* one tick of the refresh task
TaskRefresh(dbOks) == RefreshTask(dbOks, server)

\* the selector fields, the handler's selector apart
selectorVars == <<settings, method, proxies, index, interval, maxRequestsPerMinute,
                  windowSeconds, cacheDuration, currentIndex, cache, cacheExpiry>>

\* what the background loops and Shutdown leave alone
loopFrame == <<repo, selectorVars, now, requestLog, sel, lastSelect, lastRefresh, hist>>

\* the runtime sends a tick: a ticker that was not stopped puts one in its
\* channel, and drops it when one is waiting there already
TickerFire(t) ==
    /\ t \in server.tasks
    /\ ~server.ticker[t].stopped
    /\ ~server.ticker[t].pending
    /\ server' = [server EXCEPT !.ticker[t].pending = TRUE]
    /\ UNCHANGED loopFrame

\* the refresh goroutine: case <-s.refreshTicker.C, with the Refresh it runs
RefreshLoop(dbOks) ==
    /\ server.loop["refresh"] = "select"
    /\ server.ticker["refresh"].pending
    /\ RefreshTask(dbOks, [server EXCEPT !.ticker["refresh"].pending = FALSE])

\* the cleanup goroutine: case <-s.cleanupTicker.C, with CleanupLimiters
CleanupLoop ==
    /\ "cleanup" \in server.tasks
    /\ server.loop["cleanup"] = "select"
    /\ server.ticker["cleanup"].pending
    /\ server' = [server EXCEPT !.ticker["cleanup"].pending = FALSE,
                                !.cleaned = TRUE]
    /\ UNCHANGED loopFrame

\* either goroutine: case <-s.stopChan: return
LoopStop(t) ==
    /\ t \in server.tasks
    /\ server.loop[t] = "select"
    /\ server.stopChan = "closed"
    /\ server' = [server EXCEPT !.loop[t] = "done"]
    /\ UNCHANGED loopFrame

\* Shutdown: close(s.stopChan)
ShutdownClose ==
    /\ server.state = "running"
    /\ server.shutdown = "idle"
    /\ server' = [server EXCEPT !.stopChan = "closed", !.shutdown = "closed"]
    /\ UNCHANGED loopFrame

\* Shutdown: s.refreshTicker.Stop(), s.cleanupTicker.Stop(); Stop leaves a
\* tick that waits in the channel where it is
ShutdownTickers ==
    /\ server.shutdown = "closed"
    /\ server' = [server EXCEPT
                     !.ticker = [t \in StartedTasks |->
                                    IF t \in server.tasks
                                    THEN [server.ticker[t] EXCEPT !.stopped = TRUE]
                                    ELSE server.ticker[t]],
                     !.shutdown = "stopped"]
    /\ UNCHANGED loopFrame

\* Shutdown: return s.server.Shutdown(ctx)
ShutdownServer ==
    /\ server.shutdown = "stopped"
    /\ server' = [server EXCEPT !.state = "down", !.shutdown = "done"]
    /\ UNCHANGED loopFrame

\* IsSyncing: the flag read under the mutex
IsSyncing == server.sync.isSyncing

\* a reset that the error paths skip
ResetOnSuccess(result) == result # "ok"

\* the deferred function of Sync: s.isSyncing = false, whatever Sync returns
Deferred(result) == FALSE

\* a Sync call is past the guard
Inside(c) == server.sync.run[c].pc \in {"create", "work", "return"}

\* WebshareHandler.Sync: 400 without API key, 409 when IsSyncing, else the
\* goroutine that will call Sync is started and the answer is 200
HandlerSync(h) ==
    /\ server.sync.run[h].pc \in {"idle", "done"}
    /\ server.sync.calls < MaxSyncs
    /\ server' =
          IF ~server.sync.hasAPIKey
          THEN [server EXCEPT !.sync.run[h] = NoRun,
                   !.sync.resp[h] = [code |-> StatusBadRequest, status |-> "error"]]
          ELSE IF IsSyncing
          THEN [server EXCEPT !.sync.run[h] = NoRun,
                   !.sync.resp[h] = [code |-> StatusConflict,
                                     status |-> "already_running"]]
          ELSE [server EXCEPT !.sync.run[h] = [pc |-> "call", result |-> "none"],
                   !.sync.calls = @ + 1,
                   !.sync.resp[h] = [code |-> StatusOK, status |-> "started"]]
    /\ UNCHANGED loopFrame

\* WebshareScheduler.triggerSync: skips when IsSyncing, else calls Sync
triggerSync(srv) ==
    IF srv.sync.isSyncing
    THEN [srv EXCEPT !.sync.run["sched"] = [pc |-> "idle", result |-> "skipped"]]
    ELSE [srv EXCEPT !.sync.run["sched"] = [pc |-> "call", result |-> "none"],
                     !.sync.calls = @ + 1]

\* the scheduler may call triggerSync
MayTrigger ==
    /\ server.sync.hasAPIKey
    /\ server.sync.run["sched"].pc \in {"idle", "done"}
    /\ server.sync.calls < MaxSyncs

TriggerSync ==
    /\ MayTrigger
    /\ server' = triggerSync(server)
    /\ UNCHANGED loopFrame

\* Sync, the guard: under the mutex, return "sync already in progress" when
\* isSyncing, else set it
SyncEnter(c) ==
    /\ server.sync.run[c].pc = "call"
    /\ server' =
          IF server.sync.isSyncing
          THEN [server EXCEPT !.sync.run[c] = [pc |-> "done", result |-> "busy"]]
          ELSE [server EXCEPT !.sync.isSyncing = TRUE,
                              !.sync.run[c].pc = "create"]
    /\ UNCHANGED loopFrame

\* Sync, step 0: CreateSyncStatus, whose error ends the call
SyncCreate(c) ==
    /\ server.sync.run[c].pc = "create"
    /\ \E ok \in BOOLEAN :
          server' =
             IF ok THEN [server EXCEPT !.sync.statuses = @ + 1,
                                       !.sync.run[c].pc = "work"]
             ELSE [server EXCEPT !.sync.run[c] =
                                     [pc |-> "return", result |-> "create_failed"]]
    /\ UNCHANGED loopFrame

\* Sync, steps 1 to 6: the fetch from Webshare or the list of the inventory
\* fails and the call ends, or the inventory is brought in line
SyncWork(c) ==
    /\ server.sync.run[c].pc = "work"
    /\ \E result \in {"fetch_failed", "fetch_rota_failed", "ok"} :
          server' = [server EXCEPT
                        !.sync.inventory = IF result = "ok" THEN @ + 1 ELSE @,
                        !.sync.run[c] = [pc |-> "return", result |-> result]]
    /\ UNCHANGED loopFrame

\* Sync returns: the deferred function runs
SyncReturn(c) ==
    /\ server.sync.run[c].pc = "return"
    /\ server' = [server EXCEPT
                     !.sync.isSyncing = Deferred(server.sync.run[c].result),
                     !.sync.run[c].pc = "done"]
    /\ UNCHANGED loopFrame

----------------------------------------------------------------------------
(* One Sync call past its guard, step by step, with its status record.     *)
(* addLog and addError are a GetSyncByID followed by an UpdateSyncStatus   *)
(* that writes back what was read; the replacement goroutines the call     *)
(* starts run beside it and beyond its return.                             *)

Job == server.job

\* CreateSyncStatus: status IN-PROGRESS, the other columns NULL
CreateSyncStatus ==
    UpdateSyncStatus("IN-PROGRESS", NullColumn, NullColumn, NullColumn,
                     NullColumn, NullColumn)

\* the record operations of Sync: addLog, addError, updateSyncStatus
addLog(message, ip) == [kind |-> "log", entry |-> <<message, ip>>, row |-> NoRow]
addError(errorType, ip) ==
    [kind |-> "error", entry |-> <<errorType, ip>>, row |-> NoRow]
updateSyncStatus(status, ipRemoved, ipAdded, ipReplaced) ==
    [kind |-> "update", entry |-> <<status, "">>,
     row |-> UpdateSyncStatus(status, NullColumn, NullColumn, ipRemoved,
                              ipAdded, ipReplaced)]

\* the addresses of a set in the order the lists are walked
InOrder(S) == SelectSeq(AddressOrder, LAMBDA a : a \in S)

\* one operation per element of a list
Each(list, Op(_)) == [k \in 1..Len(list) |-> Op(list[k])]

\* the Sync call is at a position, the record operations before it made
At(pc) == Job.pc = pc /\ Len(Job.ops["sync"]) = 0

\* step 0: CreateSyncStatus, whose error ends the call
JobCreate ==
    /\ At("create")
    /\ \E ok \in BOOLEAN :
          server' =
             IF ok
             THEN [server EXCEPT
                      !.job.row = CreateSyncStatus,
                      !.job.ops["sync"] =
                          <<addLog("Sync started", ""),
                            addLog("Fetching proxies from Webshare", "")>>,
                      !.job.pc = "fetch"]
             ELSE [server EXCEPT !.job.erred = TRUE,
                                 !.job.result = "create_failed",
                                 !.job.pc = "done"]
    /\ UNCHANGED loopFrame

\* a fetch error: the status update to FAILED, addError, return
Failing(errorType) ==
    [server EXCEPT
        !.job.erred = TRUE,
        !.job.err = errorType,
        !.job.ops["sync"] =
            <<updateSyncStatus("FAILED", NullColumn, NullColumn, NullColumn),
              addError(errorType, "")>>,
        !.job.pc = "return"]

\* step 1: ListProxies; the addresses marked invalid are kept
JobFetch ==
    /\ At("fetch")
    /\ \E ok \in BOOLEAN :
          server' =
             IF ok
             THEN [server EXCEPT
                      !.job.webshareUnhealthyIPs =
                          InOrder({a \in Addresses : Job.provider[a] = "invalid"}),
                      !.job.ops["sync"] = <<addLog("Fetched proxies from Webshare", "")>>,
                      !.job.pc = "list"]
             ELSE Failing("fetch_failed")
    /\ UNCHANGED loopFrame

\* the inventory is listed
JobList ==
    /\ At("list")
    /\ \E ok \in BOOLEAN :
          server' =
             IF ok
             THEN [server EXCEPT
                      !.job.rotaProxies =
                          {a \in Addresses : Job.rota[a] # "absent"},
                      !.job.pc = "remove"]
             ELSE Failing("fetch_rota_failed")
    /\ UNCHANGED loopFrame

\* step 2: the listed proxies the provider does not list are deleted
JobRemove ==
    /\ At("remove")
    /\ LET missing == {a \in Job.rotaProxies : Job.provider[a] = "absent"}
       IN  \E failed \in SUBSET missing :
              server' =
                 [server EXCEPT
                     !.job.rota = [a \in Addresses |->
                                      IF a \in missing \ failed
                                      THEN "absent" ELSE Job.rota[a]],
                     !.job.ipRemoved = InOrder(missing \ failed),
                     !.job.erred = @ \/ failed # {},
                     !.job.ops["sync"] =
                         <<addLog("Removing IPs not in Webshare", "")>> \o
                         Each(InOrder(missing),
                              LAMBDA a : IF a \in failed
                                         THEN addError("remove_failed", a)
                                         ELSE addLog("Removed proxy", a)),
                     !.job.pc = "add"]
    /\ UNCHANGED loopFrame

\* step 3: every proxy the provider lists that was not in the list of the
\* inventory is created, valid or not
JobAdd ==
    /\ At("add")
    /\ LET new == {a \in Addresses : /\ Job.provider[a] # "absent"
                                     /\ a \notin Job.rotaProxies}
       IN  \E failed \in SUBSET new :
              server' =
                 [server EXCEPT
                     !.job.rota = [a \in Addresses |->
                                      IF a \in new \ failed
                                      THEN "idle" ELSE Job.rota[a]],
                     !.job.ipAdded = InOrder(new \ failed),
                     !.job.newProxies = InOrder(new \ failed),
                     !.job.erred = @ \/ failed # {},
                     !.job.ops["sync"] =
                         <<addLog("Adding new IPs from Webshare", "")>> \o
                         Each(InOrder(new),
                              LAMBDA a : IF a \in failed
                                         THEN addError("add_failed", a)
                                         ELSE addLog("Added proxy", a)),
                     !.job.pc = "check"]
    /\ UNCHANGED loopFrame

\* step 4: the new proxies are health checked; a check ends with an error,
\* or leaves the proxy failed, or active
JobCheck ==
    /\ At("check")
    /\ LET new == {Job.newProxies[k] : k \in 1..Len(Job.newProxies)}
       IN  \E errors \in SUBSET new : \E failed \in SUBSET (new \ errors) :
              server' =
                 [server EXCEPT
                     !.job.rota = [a \in Addresses |->
                                      IF a \in failed THEN "failed"
                                      ELSE IF a \in new \ errors THEN "active"
                                      ELSE Job.rota[a]],
                     !.job.erred = @ \/ errors # {},
                     !.job.ops["sync"] =
                         IF new = {} THEN <<>>
                         ELSE <<addLog("Health checking newly added IPs", "")>> \o
                              Each(Job.newProxies,
                                   LAMBDA a :
                                      IF a \in errors
                                      THEN addError("health_check_failed", a)
                                      ELSE IF a \in failed
                                      THEN addLog("New proxy failed health check", a)
                                      ELSE addLog("New proxy passed health check", a)),
                     !.job.pc = "unhealthy"]
    /\ UNCHANGED loopFrame

\* step 5, up to the goroutine: the invalid addresses are to be replaced
JobUnhealthy ==
    /\ At("unhealthy")
    /\ server' =
          IF Len(Job.webshareUnhealthyIPs) > 0
          THEN [server EXCEPT
                   !.job.ops["sync"] =
                       <<addLog("Requesting replacement for unhealthy Webshare IPs", "")>>,
                   !.job.ipReplaced = @ \o Job.webshareUnhealthyIPs,
                   !.job.pc = "go_unhealthy"]
          ELSE [server EXCEPT !.job.pc = "check_failed"]
    /\ UNCHANGED loopFrame

\* a replacement goroutine is started
JobGo(g, next) ==
    /\ At("go_" \o g)
    /\ server' = [server EXCEPT !.job.go[g] = "request", !.job.pc = next]
    /\ UNCHANGED loopFrame

\* step 5, the removal: an invalid address is deleted when it was in the
\* list of the inventory
JobRemoveUnhealthy ==
    /\ At("remove_unhealthy")
    /\ LET unhealthy == {Job.webshareUnhealthyIPs[k] :
                            k \in 1..Len(Job.webshareUnhealthyIPs)}
           exists == unhealthy \cap Job.rotaProxies
       IN  \E failed \in SUBSET exists :
              server' =
                 [server EXCEPT
                     !.job.rota = [a \in Addresses |->
                                      IF a \in exists \ failed
                                      THEN "absent" ELSE Job.rota[a]],
                     !.job.erred = @ \/ failed # {},
                     !.job.ops["sync"] =
                         Each(Job.webshareUnhealthyIPs,
                              LAMBDA a :
                                 IF a \in failed
                                 THEN addError("remove_unhealthy_failed", a)
                                 ELSE IF a \in exists
                                 THEN addLog("Removed unhealthy proxy", a)
                                 ELSE addLog("Unhealthy proxy not found in ROTA", a)),
                     !.job.pc = "check_failed"]
    /\ UNCHANGED loopFrame

\* step 6, its log entry
JobCheckFailed ==
    /\ At("check_failed")
    /\ server' = [server EXCEPT
                     !.job.ops["sync"] = <<addLog("Checking ROTA unhealthy IPs", "")>>,
                     !.job.pc = "list_failed"]
    /\ UNCHANGED loopFrame

\* step 6: the failed proxies of the inventory are to be replaced; an error
\* of the List call is passed over
JobListFailed ==
    /\ At("list_failed")
    /\ \E ok \in BOOLEAN :
          LET rotaFailedIPs == InOrder({a \in Addresses : Job.rota[a] = "failed"})
          IN  server' =
                 IF ok /\ Len(rotaFailedIPs) > 0
                 THEN [server EXCEPT
                          !.job.rotaFailedIPs = rotaFailedIPs,
                          !.job.ops["sync"] =
                              <<addLog("Requesting replacement for ROTA unhealthy IPs", "")>>,
                          !.job.ipReplaced = @ \o rotaFailedIPs,
                          !.job.pc = "go_failed"]
                 ELSE [server EXCEPT !.job.erred = @ \/ ~ok,
                                     !.job.pc = "finish"]
    /\ UNCHANGED loopFrame

\* the final status update and the last log entry
JobFinish ==
    /\ At("finish")
    /\ server' =
          [server EXCEPT
              !.job.ops["sync"] =
                  <<updateSyncStatus("SUCCESS", arrayToJSON(Job.ipRemoved),
                                     arrayToJSON(Job.ipAdded),
                                     arrayToJSON(Job.ipReplaced)),
                    addLog("Sync completed successfully", "")>>,
              !.job.pc = "return"]
    /\ UNCHANGED loopFrame

\* Sync returns nil or the fetch error
JobReturn ==
    /\ At("return")
    /\ server' = [server EXCEPT !.job.result = Job.err, !.job.pc = "done"]
    /\ UNCHANGED loopFrame

\* the addresses a replacement goroutine was started with
IpsOf(g) ==
    IF g = "unhealthy" THEN Job.webshareUnhealthyIPs ELSE Job.rotaFailedIPs

\* a replacement goroutine: CreateReplacement, and on its error one
\* addError per address
Replace(g) ==
    /\ Job.go[g] = "request"
    /\ \E ok \in BOOLEAN :
          server' =
             IF ok
             THEN [server EXCEPT !.job.go[g] = "done"]
             ELSE [server EXCEPT
                      !.job.go[g] = "done",
                      !.job.erred = TRUE,
                      !.job.ops[g] =
                          Each(IpsOf(g),
                               LAMBDA a : addError("replacement_failed", a))]
    /\ UNCHANGED loopFrame

\* addLog and addError, the read: GetSyncByID
GetSyncByID(w) ==
    /\ Len(Job.ops[w]) > 0
    /\ Job.ops[w][1].kind \in {"log", "error"}
    /\ Job.read[w].status = "none"
    /\ server' = [server EXCEPT !.job.read[w] = Job.row]
    /\ UNCHANGED loopFrame

\* the row addLog, addError or updateSyncStatus hands to UpdateSyncStatus
WrittenRow(op, status) ==
    IF op.kind = "log"
    THEN UpdateSyncStatus(status.status, status.error,
                          Json(Append(Unmarshal(status.logs), op.entry)),
                          status.ipRemoved, status.ipAdded, status.ipReplaced)
    ELSE IF op.kind = "error"
    THEN UpdateSyncStatus(status.status,
                          Json(Append(Unmarshal(status.error), op.entry)),
                          status.logs,
                          status.ipRemoved, status.ipAdded, status.ipReplaced)
    ELSE op.row

\* addLog, addError and updateSyncStatus, the write
RecordWrite(w) ==
    /\ Len(Job.ops[w]) > 0
    /\ Job.ops[w][1].kind = "update" \/ Job.read[w].status # "none"
    /\ server' = [server EXCEPT
                     !.job.row = WrittenRow(Job.ops[w][1], Job.read[w]),
                     !.job.read[w] = NoRow,
                     !.job.ops[w] = Tail(@)]
    /\ UNCHANGED loopFrame

----------------------------------------------------------------------------
(* WebshareScheduler: Start, Stop, and the goroutines running run          *)

Scheduler == server.scheduler

\* s.interval <= 0
Disabled(d) == IsNegative(d) \/ IsZero(d)

\* a call is made on a scheduler that has not panicked
Called == ~Scheduler.panicked /\ Scheduler.calls < MaxCalls

\* Start: nothing when running or when the interval is not positive; else
\* running is set, a ticker made and a goroutine started
Start ==
    /\ Called
    /\ server' =
          IF Scheduler.running \/ Disabled(Scheduler.interval)
          THEN [server EXCEPT !.scheduler.calls = @ + 1,
                              !.scheduler.last = "Start"]
          ELSE [server EXCEPT
                   !.scheduler.calls = @ + 1,
                   !.scheduler.last = "Start",
                   !.scheduler.running = TRUE,
                   !.scheduler.ticker = [made |-> TRUE, pending |-> FALSE,
                                         stopped |-> FALSE],
                   !.scheduler.runs = Append(@, "initial")]
    /\ UNCHANGED loopFrame

\* Stop: nothing when not running; else running is reset, the ticker
\* stopped and s.stopChan closed: closing a closed channel panics
Stop ==
    /\ Called
    /\ server' =
          IF ~Scheduler.running
          THEN [server EXCEPT !.scheduler.calls = @ + 1,
                              !.scheduler.last = "Stop"]
          ELSE [server EXCEPT
                   !.scheduler.calls = @ + 1,
                   !.scheduler.last = "Stop",
                   !.scheduler.running = FALSE,
                   !.scheduler.ticker.stopped = Scheduler.ticker.made,
                   !.scheduler.panicked = (Scheduler.stopChan = "closed"),
                   !.scheduler.stopChan = "closed"]
    /\ UNCHANGED loopFrame

\* IsRunning
IsRunning == Scheduler.running

\* the context given to Start is cancelled
Cancel ==
    /\ ~Scheduler.panicked
    /\ Scheduler.ctx = "live"
    /\ server' = [server EXCEPT !.scheduler.ctx = "cancelled"]
    /\ UNCHANGED loopFrame

\* the runtime sends a tick into the channel of a ticker that was not stopped
SchedulerTick ==
    /\ ~Scheduler.panicked
    /\ Scheduler.ticker.made
    /\ ~Scheduler.ticker.stopped
    /\ ~Scheduler.ticker.pending
    /\ server' = [server EXCEPT !.scheduler.ticker.pending = TRUE]
    /\ UNCHANGED loopFrame

\* a goroutine is in one of the two selects of run
Selecting(i) ==
    /\ ~Scheduler.panicked
    /\ i \in 1..Len(Scheduler.runs)
    /\ Scheduler.runs[i] \in {"initial", "loop"}

\* triggerSync called by a goroutine of run; while a Sync call of the
\* scheduler is under way IsSyncing is true or about to be, and the call
\* is passed over
Triggering(i) ==
    IF server.sync.run["sched"].pc \in {"idle", "done"}
    THEN [triggerSync(server) EXCEPT !.scheduler.runs[i] = "sync"]
    ELSE [server EXCEPT !.scheduler.runs[i] = "loop"]

\* run, the first select: time.After fires before the stop channel is
\* closed or the context done
RunAfter(i) ==
    /\ Selecting(i)
    /\ Scheduler.runs[i] = "initial"
    /\ Scheduler.stopChan = "open"
    /\ Scheduler.ctx = "live"
    /\ server.sync.calls < MaxSyncs
    /\ server' = Triggering(i)
    /\ UNCHANGED loopFrame

\* run, the select of the loop: a tick is taken, also when another case is
\* ready
RunTick(i) ==
    /\ Selecting(i)
    /\ Scheduler.runs[i] = "loop"
    /\ Scheduler.ticker.pending
    /\ server.sync.calls < MaxSyncs
    /\ server' = [Triggering(i) EXCEPT !.scheduler.ticker.pending = FALSE]
    /\ UNCHANGED loopFrame

\* triggerSync returns: the Sync call it made has returned, or it made none
RunSynced(i) ==
    /\ ~Scheduler.panicked
    /\ i \in 1..Len(Scheduler.runs)
    /\ Scheduler.runs[i] = "sync"
    /\ server.sync.run["sched"].pc \in {"idle", "done"}
    /\ server' = [server EXCEPT !.scheduler.runs[i] = "loop"]
    /\ UNCHANGED loopFrame

\* run returns: case <-s.stopChan
RunStop(i) ==
    /\ Selecting(i)
    /\ Scheduler.stopChan = "closed"
    /\ server' = [server EXCEPT !.scheduler.runs[i] = "exited"]
    /\ UNCHANGED loopFrame

\* run returns: case <-ctx.Done()
RunCancel(i) ==
    /\ Selecting(i)
    /\ Scheduler.ctx = "cancelled"
    /\ server' = [server EXCEPT !.scheduler.runs[i] = "exited"]
    /\ UNCHANGED loopFrame

----------------------------------------------------------------------------
(* The listener: wrapperHandler, and the handlers given to goproxy.  A      *)
(* path is r.URL.Path, the decoded path, as a sequence of pieces: the      *)
(* literals "/hyperliquid" and "/health", and single characters, of which  *)
(* "?" and "#" reach the path percent-encoded (%3F, %23) and "\n" as %0A   *)

Prefix == "/hyperliquid"
TargetHost == "api.hyperliquid.xyz"
ClientHost == "example.upstream"

Heads == {Prefix, "/health", "/"}
PathChars == {"/", "a", "?", "#", "\n"}
Controls == {"\n"}

RECURSIVE Tails(_)
Tails(n) == IF n = 0 THEN {<<>>}
            ELSE Tails(n - 1) \cup
                 {Append(t, ch) : t \in {u \in Tails(n - 1) : Len(u) = n - 1},
                                  ch \in PathChars}

Paths == {<<h>> \o t : h \in Heads, t \in Tails(MaxTail)}
Queries == {<<>>, <<"x=1">>}

\* CONNECT host:port; a proxy request (absolute URL); a request sent to the
\* listener itself
HttpRequests ==
    {[kind |-> "connect", path |-> <<>>, query |-> <<>>]} \cup
    {[kind |-> k, path |-> pth, query |-> q] :
        k \in {"proxy", "direct"}, pth \in Paths, q \in Queries}

\* a prefix test without the "/" that must follow the prefix
HasPrefixOnly(path) == Len(path) >= 1 /\ path[1] = Prefix

\* r.URL.Path == "/hyperliquid" || strings.HasPrefix(r.URL.Path, "/hyperliquid/")
IsRewrite(path) ==
    \/ path = <<Prefix>>
    \/ Len(path) >= 2 /\ path[1] = Prefix /\ path[2] = "/"

\* strings.TrimPrefix(r.URL.Path, "/hyperliquid"), "/" when empty
hyperliquidPath(path) == IF Tail(path) = <<>> THEN <<"/">> ELSE Tail(path)

\* newURL behind "https://api.hyperliquid.xyz": the path, then "?" and
\* RawQuery when there is one
newURL(path, query) ==
    hyperliquidPath(path) \o (IF query # <<>> THEN <<"?">> \o query ELSE <<>>)

\* strings.Cut: the pieces before and after the first ch, found or not
Cut(str, ch) ==
    IF \E k \in 1..Len(str) : str[k] = ch
    THEN LET k == CHOOSE i \in 1..Len(str) :
                      str[i] = ch /\ \A j \in 1..(i - 1) : str[j] # ch
         IN  [before |-> SubSeq(str, 1, k - 1), after |-> SubSeq(str, k + 1, Len(str))]
    ELSE [before |-> str, after |-> <<>>]

\* url.Parse of "https://api.hyperliquid.xyz" followed by rest: a control
\* character is an error; the fragment is cut at the first "#", then the
\* query at the first "?"; of what is left behind "https://", the authority
\* ends before the first "/" and the path begins there. An authority that
\* is not the target's names another host, chosen by whoever chose rest.
Parse(rest) ==
    LET u == Cut(rest, "#").before
        hier == <<TargetHost>> \o Cut(u, "?").before
        authority == Cut(hier, "/").before
    IN  [err   |-> \E k \in 1..Len(rest) : rest[k] \in Controls,
         host  |-> IF authority = <<TargetHost>> THEN TargetHost ELSE ClientHost,
         path  |-> SubSeq(hier, Len(authority) + 1, Len(hier)),
         query |-> Cut(u, "?").after]

\* the rewritten request: URL = parsedURL, Host = "api.hyperliquid.xyz"
Rewritten(req) ==
    LET parsed == Parse(newURL(req.path, req.query))
    IN  [host |-> parsed.host, path |-> parsed.path, query |-> parsed.query]

\* the request as the client sent it
AsSent(req) == [host |-> ClientHost, path |-> req.path, query |-> req.query]

\* a chain that goes on when authentication has answered
Unguarded(auth, limit, last, out) ==
    IF limit = "deny"
    THEN [trace |-> <<"auth", "limit">>, resp |-> "limited", out |-> NoForward]
    ELSE [trace |-> <<"auth", "limit", last>>, resp |-> "upstream", out |-> out]

\* Auth -> RateLimit -> Handler: a middleware that returns a response ends
\* the chain; last is the forwarding call, which selects the upstream
Chain(auth, limit, last, out) ==
    IF auth = "deny"
    THEN [trace |-> <<"auth">>, resp |-> "denied", out |-> NoForward]
    ELSE IF limit = "deny"
    THEN [trace |-> <<"auth", "limit">>, resp |-> "limited", out |-> NoForward]
    ELSE [trace |-> <<"auth", "limit", last>>, resp |-> "upstream", out |-> out]

\* the function given to OnRequest().DoFunc
OnRequest(req, auth, limit) ==
    IF IsRewrite(req.path) /\ Parse(newURL(req.path, req.query)).err
    THEN [trace |-> <<>>, resp |-> "bad_gateway", out |-> NoForward]
    ELSE Chain(auth, limit, "HandleRequest",
               IF IsRewrite(req.path) THEN Rewritten(req) ELSE AsSent(req))

\* the function given to OnRequest().HandleConnect, and ConnectDial after
\* OkConnect
HandleConnect(req, auth, limit) == Chain(auth, limit, "ConnectDial", AsSent(req))

\* goproxy's ServeHTTP: CONNECT, a proxy request, or a request that is
\* neither, which goes to its NonproxyHandler
ServeHTTP(req, auth, limit) ==
    IF req.kind = "connect" THEN HandleConnect(req, auth, limit)
    ELSE IF req.kind = "proxy" THEN OnRequest(req, auth, limit)
    ELSE [trace |-> <<>>, resp |-> "not_proxy", out |-> NoForward]

\* wrapperHandler, the handler of the listener
wrapperHandler(req, auth, limit) ==
    IF IsRewrite(req.path)
    THEN IF Parse(newURL(req.path, req.query)).err
         THEN [trace |-> <<>>, resp |-> "bad_gateway", out |-> NoForward]
         ELSE IF limit = "deny"
         THEN [trace |-> <<"limit">>, resp |-> "limited", out |-> NoForward]
         ELSE [trace |-> <<"limit", "HandleRequest">>, resp |-> "upstream",
               out |-> Rewritten(req)]
    ELSE ServeHTTP(req, auth, limit)

\* the listener handles one request; auth and limit: what the two
\* middlewares answer when they are asked
Handle ==
    /\ server.state = "running"
    /\ server.http = NoExchange
    /\ \E req \in HttpRequests : \E auth, limit \in {"continue", "deny"} :
       \E done \in {wrapperHandler(req, auth, limit)} :
          server' = [server EXCEPT !.http =
                        [req |-> req, auth |-> auth, limit |-> limit,
                         trace |-> done.trace, resp |-> done.resp, out |-> done.out]]
    /\ UNCHANGED loopFrame

\* the response is written; the listener takes the next request
Written ==
    /\ server.http # NoExchange
    /\ server' = [server EXCEPT !.http = NoExchange]
    /\ UNCHANGED loopFrame

\* one tick of the refresh task whose read of s.selector, which no lock
\* orders with the writes of ReloadSettings, yields an object other than
\* the one the handler uses
StrayRefresh ==
    /\ server.state = "running"
    /\ "refresh" \in server.tasks
    /\ \E id \in server.written \ {server.handler} : \E dbOk \in BOOLEAN :
       \E o \in {server.objects[id]} :
       \E r \in {loadActiveProxiesWithSettings(repo, o.settings, dbOk)} :
          server' = [server EXCEPT !.objects[id] = ObjectRefresh(o, r),
                                   !.refreshed = id]
    /\ UNCHANGED <<repo, selectorVars, now, requestLog, sel, lastSelect, lastRefresh, hist>>

\* the Authentication and RateLimit parts of the settings GetAll loads
MiddlewareSettings ==
    {[Authentication |-> [enabled |-> on], RateLimit |-> [enabled |-> on]] : on \in BOOLEAN}

\* ReloadSettings up to the Refresh of the new selector: settings loaded
\* (or not), the settings of the two middlewares and s.handler.settings
\* replaced, selector built and refreshed; targets: the rotation settings
\* found in the settings repository
ReloadBuild(rl, targets) ==
    /\ server.state = "running"
    /\ server.reload[rl].pc = "idle"
    /\ rl = "r1" \/ server.reload["r1"].pc # "idle"
    /\ server.built < MaxReloads
    /\ \E settingsOk \in BOOLEAN : \E dbOk \in BOOLEAN : \E s \in targets :
       \E mw \in MiddlewareSettings :
       \E r \in {loadActiveProxiesWithSettings(repo, s, dbOk)} :
       \E id \in {server.built + 1} :
          IF ~settingsOk THEN UNCHANGED server
          ELSE IF NewProxySelector(s).err \/ r.err
              THEN server' = [server EXCEPT !.authMiddleware = mw.Authentication,
                                            !.rateLimitMw = mw.RateLimit,
                                            !.handlerSettings = s]
          ELSE server' =
                  [server EXCEPT
                     !.authMiddleware = mw.Authentication,
                     !.rateLimitMw = mw.RateLimit,
                     !.handlerSettings = s,
                     !.built = id,
                     !.objects = @ @@ (id :> ObjectRefresh(Built(s), r)),
                     !.reload[rl] = [pc |-> "selector", new |-> id]]
    /\ UNCHANGED <<repo, selectorVars, now, requestLog, sel, lastSelect, lastRefresh, hist>>

\* s.selector = newSelector
ReloadSwapServer(rl) ==
    /\ server.reload[rl].pc = "selector"
    /\ server' = [server EXCEPT !.selector = server.reload[rl].new,
                                !.written = @ \cup {server.reload[rl].new},
                                !.refreshed = NoObject,
                                !.reload[rl].pc = "handler"]
    /\ UNCHANGED <<repo, selectorVars, now, requestLog, sel, lastSelect, lastRefresh, hist>>

\* s.handler.selector = newSelector; return nil. The handler's reference
\* changes between two Selects: a Select in progress ends on the selector
\* it began on.
ReloadSwapHandler(rl) ==
    /\ server.reload[rl].pc = "handler"
    /\ InFlight = {}
    /\ \E new \in {server.reload[rl].new} : \E old \in {server.handler} :
          /\ Install(server.objects[new])
          /\ server' =
                [server EXCEPT
                   !.handler = new,
                   !.objects = [id \in (DOMAIN @ \ {new}) \cup {old} |->
                                   IF id = old THEN Current ELSE @[id]],
                   !.refreshed = NoObject,
                   !.reloaded = TRUE,
                   !.reload[rl] = NoReload]
    /\ hist' = <<>>
    /\ lastRefresh' = NoRefresh
    /\ UNCHANGED <<repo, now, requestLog, sel, lastSelect>>

----------------------------------------------------------------------------
(* Specifications *)

NoProtocols == <<>>

ZeroStats == [requests |-> 0, successfulRequests |-> 0, avgResponseTime |-> 100]

NoLog == <<>>

\* the upstream whose health changes
Unhealthy == {1}

\* the table of the rate-limited models: the last row is healthy
RateLimitedRepos ==
    {[id \in 1..NumRLProxies |->
         Row(id, IF id \in Unhealthy THEN st ELSE "active", ZeroStats)] :
     st \in {"active", "failed"}}

\* a window longer than the run, a cache that lives one second
CachingSettings ==
    {RotationSettings("rate_limited", 0, maxReq, 5, NoProtocols, 0, 0) : maxReq \in {1}}

\* the rate-limited selector under concurrent callers whose requests all
\* succeed and are all recorded; no store query fails
Succeeds == {TRUE}
NoFailure == {}

Init ==
    /\ server = RunningServer
    /\ \E s \in CachingSettings : Constructed(s)
    /\ repo \in RateLimitedRepos
    /\ requestLog = NoLog

Next ==
    \/ RateLimitedRefresh
    \/ Tick
    \/ \E c \in Callers : SelectBegin(c, Succeeds)
    \/ \E c \in Callers : SelectQuery(c, NoFailure)
    \/ \E c \in Callers : SelectUpdate(c)
    \/ \E c \in Callers : SelectPick(c)
    \/ \E c \in Callers : SelectReturn(c, Succeeds)

Spec == Init /\ [][Next]_vars

\* the cache of the rate-limited selector under concurrent callers, Refresh
\* and a grouped query that can fail; the log is the one found at the start (empty,
\* or the first candidate at its limit) and the tracker records nothing
Unrecorded == {}

InitialLogs ==
    {NoLog, [id |-> NumRLProxies, ts |-> 1, success |-> TRUE] :> 1}

InitCache ==
    /\ server = RunningServer
    /\ \E s \in CachingSettings : Constructed(s)
    /\ repo \in RateLimitedRepos
    /\ requestLog \in InitialLogs

NextCache ==
    \/ RateLimitedRefresh
    \/ SetStatus(Unhealthy)
    \/ Tick
    \/ \E c \in Callers : SelectBegin(c, Unrecorded)
    \/ \E c \in Callers : SelectQuery(c, {"group"})
    \/ \E c \in Callers : SelectUpdate(c)
    \/ \E c \in Callers : SelectPick(c)
    \/ \E c \in Callers : SelectReturn(c, Unrecorded)

SpecCache == InitCache /\ [][NextCache]_vars

\* the rate-limited selector and the content of the request log: one caller,
\* requests that succeed or fail, store queries that can fail
StoreSettings ==
    {RotationSettings("rate_limited", 0, maxReq, win, NoProtocols, 0, 0) :
        maxReq \in {1, 2}, win \in {1, 5}}

InitStore ==
    /\ server = RunningServer
    /\ \E s \in StoreSettings : Constructed(s)
    /\ repo \in RateLimitedRepos
    /\ requestLog = NoLog

NextStore ==
    \/ RateLimitedRefresh
    \/ Tick
    \/ SelectBegin("c1", BOOLEAN)
    \/ SelectQuery("c1", {"group", "recent"})
    \/ SelectUpdate("c1")
    \/ SelectPick("c1")
    \/ SelectReturn("c1", BOOLEAN)

SpecStore == InitStore /\ [][NextStore]_vars

\* the selectors whose Select is one critical section
SelectSettings ==
    {RotationSettings(m, 0, 0, 0, NoProtocols, 0, 0) :
        m \in {"random", "roundrobin", "least_conn"}}
    \cup {RotationSettings("time_based", iv, 0, 0, NoProtocols, 0, 0) : iv \in {0, 2}}

SelectProfile(id) ==
    IF id % 3 = 1 THEN [requests |-> 50, successfulRequests |-> 30, avgResponseTime |-> 300]
    ELSE IF id % 3 = 2 THEN [requests |-> 0, successfulRequests |-> 0, avgResponseTime |-> 100]
    ELSE [requests |-> 50, successfulRequests |-> 28, avgResponseTime |-> 100]

InitSelect ==
    /\ server = RunningServer
    /\ \E s \in SelectSettings : Constructed(s)
    /\ requestLog = NoLog
    /\ repo = [id \in ProxyIds |-> Row(id, "active", SelectProfile(id))]

NextSelect ==
    \/ RandomRefresh
    \/ RoundRobinRefresh
    \/ LeastConnRefresh
    \/ TimeBasedRefresh
    \/ RandomSelect
    \/ RoundRobinSelect
    \/ LeastConnSelect
    \/ TimeBasedSelect
    \/ SetStatus(ProxyIds)
    \/ Tick

SpecSelect == InitSelect /\ [][NextSelect]_vars

\* every selector the factory builds: each spelling of each method, an
\* unknown and an empty method, configured and unconfigured parameters
MethodNames ==
    {"random", "roundrobin", "round-robin", "least_conn", "least-conn",
     "least_connections", "time_based", "time-based", "rate_limited",
     "rate-limited", "invalid", ""}
ConfiguredIntervals ==
    {Int64(-1), Int64(0), Int64(2), Int64Of(18, 446744072), Int64Of(18, 446744074)}
ConfiguredMaxRequests == {-1, 0, 1}
ConfiguredWindows == {-1, 0, 1, 4, 5, 9, 10, 11}

FactorySettings ==
    {RotationSettings(m, 0, 0, 0, NoProtocols, 0, 0) : m \in MethodNames}
    \cup {[RotationSettings(m, 0, 0, 0, NoProtocols, 0, 0) EXCEPT !.Interval = iv] :
              m \in {"time_based", "time-based"}, iv \in ConfiguredIntervals}
    \cup {RotationSettings(m, 0, maxReq, 0, NoProtocols, 0, 0) :
              m \in {"rate_limited", "rate-limited"}, maxReq \in ConfiguredMaxRequests}
    \cup {RotationSettings(m, 0, 0, win, NoProtocols, 0, 0) :
              m \in {"rate_limited", "rate-limited"}, win \in ConfiguredWindows}

InitFactory ==
    /\ server = RunningServer
    /\ \E s \in FactorySettings : Constructed(s)
    /\ requestLog = NoLog
    /\ repo = [id \in 1..NumRLProxies |-> Row(id, "active", SelectProfile(id))]

NextFactory ==
    \/ RandomRefresh
    \/ RoundRobinRefresh
    \/ LeastConnRefresh
    \/ TimeBasedRefresh
    \/ RateLimitedRefresh
    \/ RandomSelect
    \/ RoundRobinSelect
    \/ LeastConnSelect
    \/ TimeBasedSelect
    \/ \E c \in Callers :
          \/ SelectBegin(c, Unrecorded)
          \/ SelectQuery(c, NoFailure)
          \/ SelectUpdate(c)
          \/ SelectPick(c)
          \/ SelectReturn(c, Unrecorded)
    \/ Tick

SpecFactory == InitFactory /\ [][NextFactory]_vars

\* a server from New on: every selector, one caller of the rate-limited
\* Select, upstreams that fail and recover, a database that may not answer
ServerSettings ==
    {RotationSettings(m, 0, 0, 0, NoProtocols, 0, 0) :
        m \in {"random", "roundrobin", "least_conn", "time_based", "rate_limited"}}

InitServer ==
    /\ \E s \in ServerSettings : Constructed(s)
    /\ server = NewServer
    /\ requestLog = NoLog
    /\ repo \in RateLimitedRepos

NextServer ==
    \/ New
    \/ TaskRefresh(BOOLEAN)
    \/ Serving /\ RandomSelect
    \/ Serving /\ RoundRobinSelect
    \/ Serving /\ LeastConnSelect
    \/ Serving /\ TimeBasedSelect
    \/ Serving /\ SelectBegin("c1", Unrecorded)
    \/ SelectQuery("c1", NoFailure)
    \/ SelectUpdate("c1")
    \/ SelectPick("c1")
    \/ SelectReturn("c1", Unrecorded)
    \/ SetStatus(1..NumRLProxies)
    \/ Tick

SpecServer == InitServer /\ [][NextServer]_vars

\* a server with one of the selectors whose Select is one critical
\* section, at one instant of the clock; the refresh ticker keeps firing
\* and the database answers in the end
LiveSettings == {s \in ServerSettings : s.Method # "rate_limited"}

InitLive ==
    /\ \E s \in LiveSettings : Constructed(s)
    /\ server = NewServer
    /\ requestLog = NoLog
    /\ repo \in RateLimitedRepos

NextLive ==
    \/ New
    \/ TaskRefresh(BOOLEAN)
    \/ Serving /\ RandomSelect
    \/ Serving /\ RoundRobinSelect
    \/ Serving /\ LeastConnSelect
    \/ Serving /\ TimeBasedSelect
    \/ SetStatus(1..NumRLProxies)

SpecLive == InitLive /\ [][NextLive]_vars /\ WF_vars(TaskRefresh({TRUE}))

\* a round-robin server whose settings are reloaded, by up to two callers
\* at a time, to rate-limited or to round-robin
ReloadedSettings ==
    {RotationSettings(m, 0, 0, 0, NoProtocols, 0, 0) : m \in {"roundrobin", "rate_limited"}}

InitReload ==
    /\ Constructed(RotationSettings("roundrobin", 0, 0, 0, NoProtocols, 0, 0))
    /\ server = NewServer
    /\ requestLog = NoLog
    /\ repo \in RateLimitedRepos

NextReload ==
    \/ New
    \/ TaskRefresh(BOOLEAN)
    \/ StrayRefresh
    \/ \E rl \in Reloaders : ReloadBuild(rl, ReloadedSettings)
    \/ \E rl \in Reloaders : ReloadSwapServer(rl)
    \/ \E rl \in Reloaders : ReloadSwapHandler(rl)
    \/ Serving /\ RoundRobinSelect
    \/ Serving /\ SelectBegin("c1", Unrecorded)
    \/ SelectQuery("c1", NoFailure)
    \/ SelectUpdate("c1")
    \/ SelectPick("c1")
    \/ SelectReturn("c1", Unrecorded)

SpecReload == InitReload /\ [][NextReload]_vars

\* Refresh of every selector over a table and settings drawn at the start
FilterSettings ==
    {[RotationSettings(m, 0, 0, 0, protos, maxRt, minRate)
         EXCEPT !.RemoveUnhealthy = ru] :
        m \in {"random", "roundrobin", "least_conn", "time_based", "rate_limited"},
        protos \in {NoProtocols, <<"http">>, <<"http", "socks5">>},
        maxRt \in {0, 200},
        minRate \in {0, 58},
        ru \in BOOLEAN}

InitRefresh ==
    /\ server = RunningServer
    /\ \E s \in FilterSettings : Constructed(s)
    /\ requestLog = NoLog
    /\ \E st \in [1..NumFilterProxies -> Statuses] :
       \E pf \in [1..NumFilterProxies -> StatProfiles] :
          repo = [id \in 1..NumFilterProxies |-> Row(id, st[id], pf[id])]

NextRefresh ==
    \/ RandomRefresh
    \/ RoundRobinRefresh
    \/ LeastConnRefresh
    \/ TimeBasedRefresh
    \/ RateLimitedRefresh

SpecRefresh == InitRefresh /\ [][NextRefresh]_vars

\* the rotation of the rate-limited selector, observed: the table does not
\* change, so every Refresh that returns ok yields the same candidates; the
\* log is the one found at the start and nothing is added to it, so the
\* available list is all candidates, or all but the last one
AllActive == {[id \in 1..NumRLProxies |-> Row(id, "active", ZeroStats)]}

InitRotate ==
    /\ server = RunningServer
    /\ \E s \in CachingSettings : Constructed(s)
    /\ repo \in AllActive
    /\ requestLog \in InitialLogs

NextRotate ==
    \/ RateLimitedRefresh
    \/ Tick
    \/ \E c \in Callers : SelectBegin(c, Unrecorded)
    \/ \E c \in Callers : SelectQuery(c, NoFailure)
    \/ \E c \in Callers : SelectUpdate(c)
    \/ \E c \in Callers : RecordedPick(c)
    \/ \E c \in Callers : SelectReturn(c, Unrecorded)

SpecRotate == InitRotate /\ [][NextRotate]_vars

\* a running server, its two background loops and one call of Shutdown;
\* a select whose stop case is ready takes it in the end (the runtime
\* chooses among the ready cases at random)
InitShutdown ==
    /\ server = RunningServer
    /\ \E s \in ServerSettings : Constructed(s)
    /\ requestLog = NoLog
    /\ repo \in RateLimitedRepos

NextShutdown ==
    \/ \E t \in StartedTasks : TickerFire(t)
    \/ RefreshLoop(BOOLEAN)
    \/ CleanupLoop
    \/ \E t \in StartedTasks : LoopStop(t)
    \/ ShutdownClose
    \/ ShutdownTickers
    \/ ShutdownServer

SpecShutdown ==
    /\ InitShutdown
    /\ [][NextShutdown]_vars
    /\ \A t \in StartedTasks : WF_vars(LoopStop(t))

\* the Webshare sync service with or without API key, two requests to the
\* manual sync endpoint and the scheduler
InitSync ==
    /\ \E key \in BOOLEAN :
          server = [RunningServer EXCEPT !.sync.hasAPIKey = key]
    /\ \E s \in SelectSettings : Constructed(s)
    /\ requestLog = NoLog
    /\ repo \in RateLimitedRepos

NextSync ==
    \/ \E h \in Requests : HandlerSync(h)
    \/ TriggerSync
    \/ \E c \in SyncCallers : SyncEnter(c)
    \/ \E c \in SyncCallers : SyncCreate(c)
    \/ \E c \in SyncCallers : SyncWork(c)
    \/ \E c \in SyncCallers : SyncReturn(c)

SpecSync == InitSync /\ [][NextSync]_vars

\* the listener of a running server, one request after the other
InitListener ==
    /\ server = RunningServer
    /\ \E s \in SelectSettings : Constructed(s)
    /\ requestLog = NoLog
    /\ repo \in RateLimitedRepos

NextListener ==
    \/ Handle
    \/ Written

SpecListener == InitListener /\ [][NextListener]_vars

\* one Sync call: what the provider lists and what the inventory holds are
\* the inputs
InitRun ==
    /\ \E p \in [Addresses -> {"absent", "valid", "invalid"}] :
       \E r \in [Addresses -> {"absent", "active", "failed"}] :
          server = [RunningServer EXCEPT !.job.provider = p, !.job.rota = r]
    /\ Constructed(RotationSettings("random", 0, 0, 0, NoProtocols, 0, 0))
    /\ requestLog = NoLog
    /\ repo = [id \in 1..NumRLProxies |-> Row(id, "active", ZeroStats)]

NextRun ==
    \/ JobCreate
    \/ JobFetch
    \/ JobList
    \/ JobRemove
    \/ JobAdd
    \/ JobCheck
    \/ JobUnhealthy
    \/ JobGo("unhealthy", "remove_unhealthy")
    \/ JobRemoveUnhealthy
    \/ JobCheckFailed
    \/ JobListFailed
    \/ JobGo("failed", "finish")
    \/ JobFinish
    \/ JobReturn
    \/ \E g \in Replacements : Replace(g)
    \/ \E w \in Writers : GetSyncByID(w)
    \/ \E w \in Writers : RecordWrite(w)

SpecRun == InitRun /\ [][NextRun]_vars

\* a scheduler made with an interval, the calls made on it, its goroutines
\* and the Sync calls they make
IntervalSeconds == {Int64(-1), Int64(0), Int64(60)}

InitScheduler ==
    /\ \E n \in IntervalSeconds :
          server = [RunningServer EXCEPT !.sync.hasAPIKey = TRUE,
                                         !.scheduler = NewWebshareScheduler(n)]
    /\ Constructed(RotationSettings("random", 0, 0, 0, NoProtocols, 0, 0))
    /\ requestLog = NoLog
    /\ repo = [id \in 1..NumRLProxies |-> Row(id, "active", ZeroStats)]

Runs == 1..MaxCalls

NextScheduler ==
    \/ Start
    \/ Stop
    \/ Cancel
    \/ SchedulerTick
    \/ \E i \in Runs : RunAfter(i)
    \/ \E i \in Runs : RunTick(i)
    \/ \E i \in Runs : RunSynced(i)
    \/ \E i \in Runs : RunStop(i)
    \/ \E i \in Runs : RunCancel(i)
    \/ SyncEnter("sched")
    \/ SyncCreate("sched")
    \/ SyncWork("sched")
    \/ SyncReturn("sched")

SpecScheduler == InitScheduler /\ [][NextScheduler]_vars

\* a least-connections selector over a table whose counters grow with the
\* requests served
InitLeast ==
    /\ Constructed(RotationSettings("least_conn", 0, 0, 0, NoProtocols, 0, 0))
    /\ server = RunningServer
    /\ requestLog = NoLog
    /\ repo = [id \in 1..NumRLProxies |-> Row(id, "active", ZeroStats)]

NextLeast ==
    \/ LeastConnRefresh
    \/ LeastConnSelect
    \/ \E id \in 1..NumRLProxies : IncrementCounters(id, {TRUE})
    \/ SetStatus(Unhealthy)

SpecLeast == InitLeast /\ [][NextLeast]_vars

----------------------------------------------------------------------------
(* Properties *)

\* a step of Select's critical sections and queries, seen on caller c
BeginStep(c) == sel[c].pc = "idle" /\ sel'[c].pc # "idle"
QueryStep(c) == sel[c].pc = "query" /\ sel'[c].pc = "update"
UpdateStep(c) == sel[c].pc = "update" /\ sel'[c].pc # "update"
PickStep(c) == sel[c].pc = "pick" /\ sel'[c].pc = "ret"

\* a Refresh call of whichever selector was built
RefreshStep ==
    \/ RandomRefresh
    \/ RoundRobinRefresh
    \/ LeastConnRefresh
    \/ TimeBasedRefresh
    \/ RateLimitedRefresh

\* the rotation filters in exact arithmetic
PassesFilters(row, s) ==
    /\ row.status \in {"active", "idle"}
    /\ Len(s.AllowedProtocols) > 0 =>
           \E k \in 1..Len(s.AllowedProtocols) : row.protocol = s.AllowedProtocols[k]
    /\ s.MaxResponseTime > 0 => row.avgResponseTime <= s.MaxResponseTime
    /\ (s.MinSuccessRate > 0 /\ row.requests > 0) =>
           row.successfulRequests * 100 >= s.MinSuccessRate * row.requests

\* success records of proxy id with a timestamp in from..to
SuccessesIn(id, from, to) ==
    LET hits == {r \in DOMAIN requestLog :
                    r.id = id /\ r.success /\ r.ts >= from /\ r.ts <= to}
        RECURSIVE Sum(_)
        Sum(S) == IF S = {} THEN 0
                  ELSE LET r == CHOOSE x \in S : TRUE
                       IN  requestLog[r] + Sum(S \ {r})
    IN  Sum(hits)

\* success records of proxy id in the window that ends now
RecentSuccesses(id) == CountIn(requestLog, id, now, windowSeconds, TRUE)

\* C1: while the candidate list of a RoundRobinSelector is not replaced, the
\* Selects (one critical section each, in lock order) walk the list in
\* order and wrap around: the j-th result is the candidate j-1 places after
\* the first one, so every k*N consecutive results hold each of the N
\* candidates exactly k times; a selector whose first Select used position
\* 0 of [A,B,C] returns A,B,C,A,B,C,A on 7 Selects.
C1_RoundRobinCycle ==
    (method = "roundrobin" /\ Len(proxies) > 0) =>
        LET N     == Len(proxies)
            start == (index + N * MaxHist - Len(hist)) % N
        IN  /\ \A j \in 1..Len(hist) :
                   hist[j] = proxies[((start + j - 1) % N) + 1].id
            /\ \A i \in 1..Len(hist) : \A k \in 1..MaxHist :
                   i + k * N - 1 <= Len(hist) =>
                       \A p \in 1..N :
                           Cardinality({j \in i..(i + k * N - 1) :
                                           hist[j] = proxies[p].id}) = k
            /\ (N = 3 /\ start = 0 /\ Len(hist) = 7) =>
                   hist = <<proxies[1].id, proxies[2].id, proxies[3].id,
                            proxies[1].id, proxies[2].id, proxies[3].id,
                            proxies[1].id>>

\* seven Selects over three candidates, the first from position 0
C1_Witness ==
    /\ method = "roundrobin"
    /\ Len(proxies) = 3
    /\ Len(hist) = 7
    /\ hist[1] = proxies[1].id
    /\ hist[7] = proxies[1].id

\* C2: with a non-empty candidate list (so after a Refresh that returned
\* ok), a Select that began after the list was last replaced returns a
\* member of the current candidate list and never NoUpstream; the
\* rate-limited selector may return AllRateLimited instead.
C2_SelectReturnsCandidate ==
    /\ (method # "rate_limited" /\ lastRefresh = NoRefresh
            /\ lastSelect # NoSelect /\ Len(proxies) > 0) =>
           /\ lastSelect.kind = "proxy"
           /\ lastSelect.id \in Ids(proxies)
    /\ \A c \in Callers :
           (sel[c].pc = "ret" /\ sel[c].fresh /\ Len(proxies) > 0) =>
               /\ sel[c].result.kind \in {"proxy", "AllRateLimited"}
               /\ sel[c].result.kind = "proxy" => sel[c].result.id \in Ids(proxies)

\* C3: when getAvailableProxies runs with no failing query: if every
\* candidate has exactly max_requests success records in the window the
\* call ends in AllRateLimited; if some candidate has fewer, the available
\* list is not empty, holds only candidates with fewer than max_requests
\* success records, and the upstream picked is one of that list.
C3_FreshSelect ==
    [][\A c \in Callers :
          /\ (QueryStep(c) /\ sel'[c].storeErr = "none") =>
                 LET all   == Ids(sel[c].allProxies)
                     avail == sel'[c].availableProxies
                 IN  /\ (\A id \in all : RecentSuccesses(id) = maxRequestsPerMinute)
                            => Len(avail) = 0
                     /\ (\E id \in all : RecentSuccesses(id) < maxRequestsPerMinute)
                            => /\ Len(avail) > 0
                               /\ \A id \in Ids(avail) :
                                      RecentSuccesses(id) < maxRequestsPerMinute
          /\ UpdateStep(c) =>
                 (sel'[c].result = AllRateLimited <=> Len(sel[c].availableProxies) = 0)
          /\ PickStep(c) =>
                 /\ sel'[c].result.kind = "proxy"
                 /\ sel'[c].result.id \in Ids(sel[c].availableProxies)
      ]_vars

\* C4: the list getAvailableProxies returns when no query fails holds
\* exactly the candidates with fewer than max_requests success records in
\* the last window_s seconds, failed records not counting.
C4_AvailableExact ==
    [][\A c \in Callers :
          (QueryStep(c) /\ sel'[c].storeErr = "none") =>
              Ids(sel'[c].availableProxies) =
                  {id \in Ids(sel[c].allProxies) :
                       RecentSuccesses(id) < maxRequestsPerMinute}
      ]_vars

\* C5: when every Select that returns an upstream is followed by one
\* success record for it, no upstream has more than max_requests success
\* records in any window of window_s seconds.
C5_NeverOverLimit ==
    \A id \in 1..NumRLProxies : \A t \in Time :
        SuccessesIn(id, t - windowSeconds, t) <= maxRequestsPerMinute

\* C6: when a store query of getAvailableProxies fails (the grouped query
\* or a proxyHasRecentRequests query), Select goes on with all candidates
\* and picks one of them; it does not end in AllRateLimited.
C6_StoreFailureDegradesOpen ==
    [][\A c \in Callers :
          /\ (QueryStep(c) /\ sel'[c].storeErr # "none") =>
                 sel'[c].availableProxies = sel[c].allProxies
          /\ (UpdateStep(c) /\ sel[c].storeErr # "none") =>
                 /\ sel'[c].pc = "pick"
                 /\ sel'[c].availableProxies = sel[c].allProxies
      ]_vars

\* C7: after a Refresh of the rate-limited selector returned ok with no
\* Select in progress, the cache is empty and cacheExpiry is the zero time,
\* and the Select that begins next finds no valid cache and queries the
\* store over the new candidate list.
C7_RefreshInvalidatesCache ==
    /\ []((lastRefresh.result = "ok" /\ lastRefresh.quiet) =>
              /\ cache = <<>>
              /\ cacheExpiry = ZeroTime
              /\ ~CacheValid(now, cacheExpiry, cache))
    /\ [][\A c \in Callers :
             (lastRefresh.result = "ok" /\ lastRefresh.quiet /\ BeginStep(c)) =>
                 /\ sel'[c].pc = "query"
                 /\ ~sel'[c].cacheValid
                 /\ sel'[c].allProxies = proxies
         ]_vars

\* a Refresh returned ok with no Select in progress, after a Select had
\* picked from a list it cached
C7_Witness ==
    /\ method = "rate_limited"
    /\ lastRefresh.result = "ok"
    /\ lastRefresh.quiet
    /\ currentIndex > 0
    /\ cache = <<>>

\* C8: a Select of the rate-limited selector that begins when the clock is
\* not before cacheExpiry finds the cache invalid, whatever filled it: it
\* runs the store queries (all candidates when the grouped query fails),
\* writes the list it got and cacheExpiry = now + cacheDuration, and picks
\* from that list.
C8_ExpiredCacheNotUsed ==
    /\ [](\A c \in Callers :
             sel[c].expired =>
                 /\ ~sel[c].cacheValid
                 /\ sel[c].pc \in {"query", "update", "pick"})
    /\ [][\A c \in Callers :
             /\ (BeginStep(c) /\ ~(now < cacheExpiry)) =>
                    /\ sel'[c].pc \in {"query", "ret"}
                    /\ sel'[c].pc = "ret" => sel'[c].result = NoUpstream
             /\ (QueryStep(c) /\ sel'[c].storeErr = "group") =>
                    sel'[c].availableProxies = sel[c].allProxies
             /\ UpdateStep(c) =>
                    /\ cache' = sel[c].availableProxies
                    /\ cacheExpiry' = now + cacheDuration
             /\ (PickStep(c) /\ sel[c].expired) =>
                    sel'[c].result.id \in Ids(sel[c].availableProxies)
         ]_vars

\* a Select that began with an expired, non-empty cache falls back to all
\* candidates because the grouped query failed
C8_Witness ==
    \E c \in Callers :
        /\ sel[c].expired
        /\ sel[c].pc = "update"
        /\ sel[c].storeErr = "group"
        /\ sel[c].availableProxies = sel[c].allProxies

\* the settings that tighten one filter of s: a higher min_success_rate, a
\* lower positive max_response_time, a shorter non-empty allowed_protocols
TighterRates == {57, 58, 59, 61}
TighterResponseTimes == {50, 100, 150}

Tightened(s) ==
    {[s EXCEPT !.MinSuccessRate = r] : r \in {q \in TighterRates : q > s.MinSuccessRate}}
    \cup {[s EXCEPT !.MaxResponseTime = t] :
              t \in {q \in TighterResponseTimes : q < s.MaxResponseTime}}
    \cup {[s EXCEPT !.AllowedProtocols = <<s.AllowedProtocols[k]>>] :
              k \in {j \in 1..Len(s.AllowedProtocols) : Len(s.AllowedProtocols) > 1}}

\* the candidates a selector built with settings s holds after its Refresh
\* read table rp: the rows loaded, or the constructor's empty list when the
\* Refresh returned an error
HeldAfterRefresh(rp, s) == Ids(loadActiveProxiesWithSettings(rp, s, TRUE).proxies)

\* C11: for the table a Refresh just read under settings S, a selector
\* refreshed from the same table under settings that tighten one filter of
\* S holds a subset of the candidates held under S, the empty set when no
\* row passes the tighter settings.
C11_FilterMonotone ==
    lastRefresh.result \in {"ok", "NoneFound"} =>
        \A t \in Tightened(settings) :
            HeldAfterRefresh(repo, t) \subseteq Ids(proxies)

\* a Refresh kept two candidates of which a higher min_success_rate keeps
\* one and a lower max_response_time keeps none
C11_Witness ==
    /\ lastRefresh.result = "ok"
    /\ Len(proxies) = 2
    /\ \E t \in Tightened(settings) : Cardinality(HeldAfterRefresh(repo, t)) = 1
    /\ \E t \in Tightened(settings) :
           loadActiveProxiesWithSettings(repo, t, TRUE).why = "NoneFound"

\* C12: after a Refresh that returned ok, no failed upstream is a
\* candidate when remove_unhealthy is true, and every failed upstream that
\* passes the protocol, response-time and success-rate filters is a
\* candidate when remove_unhealthy is false.
C12_RemoveUnhealthy ==
    lastRefresh.result = "ok" =>
        /\ settings.RemoveUnhealthy =>
               \A k \in 1..Len(proxies) : repo[proxies[k].id].status # "failed"
        /\ ~settings.RemoveUnhealthy =>
               \A i \in DOMAIN repo :
                   (/\ repo[i].status = "failed"
                    /\ PassesFilters([repo[i] EXCEPT !.status = "active"], settings))
                       => i \in Ids(proxies)

\* C13: the selector NewProxySelector built is Random for "random",
\* RoundRobin for "roundrobin" and "round-robin", LeastConnections for
\* "least_conn", "least-conn" and "least_connections", TimeBased for
\* "time_based" and "time-based", RateLimited for "rate_limited" and
\* "rate-limited", Random for every other method string, and the factory
\* returned no error.
C13_FactoryMapping ==
    /\ ~NewProxySelector(settings).err
    /\ settings.Method = "random" => method = "random"
    /\ settings.Method \in {"roundrobin", "round-robin"} => method = "roundrobin"
    /\ settings.Method \in {"least_conn", "least-conn", "least_connections"}
           => method = "least_conn"
    /\ settings.Method \in {"time_based", "time-based"} => method = "time_based"
    /\ settings.Method \in {"rate_limited", "rate-limited"} => method = "rate_limited"
    /\ settings.Method \notin
           {"random", "roundrobin", "round-robin", "least_conn", "least-conn",
            "least_connections", "time_based", "time-based", "rate_limited",
            "rate-limited"} => method = "random"

\* the selector built for "round-robin" has advanced its index, the way a
\* RoundRobin selector does
C13_Witness ==
    /\ settings.Method = "round-robin"
    /\ index = 1
    /\ lastSelect.kind = "proxy"

\* C14: a rate-limited selector built by the factory has max_requests = the
\* configured max_requests_per_minute when that is > 0 and 30 otherwise,
\* window_s = the configured window_seconds when that is > 0 and 60
\* otherwise, and both are at least 1.
C14_RateLimitedDefaults ==
    method = "rate_limited" =>
        /\ maxRequestsPerMinute =
               IF settings.MaxRequestsPerMinute > 0
               THEN settings.MaxRequestsPerMinute ELSE 30
        /\ windowSeconds =
               IF settings.WindowSeconds > 0 THEN settings.WindowSeconds ELSE 60
        /\ maxRequestsPerMinute >= 1
        /\ windowSeconds >= 1

\* a selector configured with a negative limit and a zero window has
\* served a Select with the defaults
C14_Witness ==
    /\ method = "rate_limited"
    /\ settings.MaxRequestsPerMinute < 0
    /\ settings.WindowSeconds = 0
    /\ maxRequestsPerMinute = 30
    /\ windowSeconds = 60
    /\ \E c \in Callers : sel[c].result.kind = "proxy"

\* C17: for a window of at least one second the cache lifetime of the
\* rate-limited selector is the integer quotient window_s / 5 capped at 2
\* seconds: 0 for windows 1..4, 1 for 5..9, 2 from 10 on; it is never
\* negative.
C17_CacheDuration ==
    (method = "rate_limited" /\ windowSeconds >= 1) =>
        /\ cacheDuration =
               IF windowSeconds \div 5 > 2 THEN 2 ELSE windowSeconds \div 5
        /\ windowSeconds \in 1..4 => cacheDuration = 0
        /\ windowSeconds \in 5..9 => cacheDuration = 1
        /\ windowSeconds >= 10 => cacheDuration = 2
        /\ cacheDuration >= 0

\* a selector with a 9 second window cached its list for one second
C17_Witness ==
    /\ method = "rate_limited"
    /\ windowSeconds = 9
    /\ Len(cache) > 0
    /\ cacheExpiry = now + 1

\* C15: a Select of the least-connections selector over N >= 1 candidates
\* returns the candidate with the fewest lifetime requests, the earliest
\* in list order among equals, and changes no upstream counter and no
\* selector state.
C15_LeastUsed ==
    [][LeastConnSelect =>
          /\ Len(proxies) >= 1 =>
                 \E k \in 1..Len(proxies) :
                    /\ lastSelect' = Returned(proxies[k])
                    /\ \A j \in 1..Len(proxies) :
                           proxies[k].requests <= proxies[j].requests
                    /\ \A j \in 1..(k - 1) :
                           proxies[j].requests > proxies[k].requests
          /\ repo' = repo
          /\ proxies' = proxies
          /\ <<index, currentIndex, cache, cacheExpiry>>' =
                 <<index, currentIndex, cache, cacheExpiry>>]_vars

\* two candidates have the same number of requests and Select returned
\* the first of them
C15_Witness ==
    /\ method = "least_conn"
    /\ lastRefresh = NoRefresh
    /\ Len(proxies) = 2
    /\ proxies[1].requests = proxies[2].requests
    /\ lastSelect = Returned(proxies[1])

\* the interval the settings ask for, in seconds: the configured one, or
\* 120 when that is not positive; the slot of time t for it
ClaimedSlot(t, s, n) ==
    LET iv == IF IsNegative(s.Interval) \/ IsZero(s.Interval) THEN Int64(120)
              ELSE s.Interval
    IN  IF FitsSmall(iv) THEN (t \div SmallOf(iv)) % n ELSE 0

\* C16: a Select of the time-slot selector over N >= 1 candidates at time
\* t returns candidates[(t div interval_s) mod N], interval_s being the
\* configured interval or 120 when that is not positive; it never divides
\* by zero and changes no selector state.
C16_TimeSlot ==
    [][TimeBasedSelect =>
          /\ Len(proxies) >= 1 =>
                 lastSelect' = Returned(proxies[ClaimedSlot(now, settings, Len(proxies)) + 1])
          /\ proxies' = proxies
          /\ interval' = interval]_vars

\* C18: when the initial Refresh fails while the server is constructed,
\* New still returns a running server with the refresh and the cleanup
\* task started, and until a later Refresh returns ok every Select fails
\* with NoUpstream.
C18_StartupRefreshNonFatal ==
    server.startup \in {"LoadError", "NoneFound"} =>
        /\ server.state = "running"
        /\ server.tasks = {"refresh", "cleanup"}
        /\ ~server.everOk =>
               /\ lastSelect \in {NoSelect, NoUpstream}
               /\ \A c \in Callers : sel[c].result \in {NoSelect, NoUpstream}

\* the initial Refresh found no upstream, the server runs, a refresh tick
\* has failed since, and a Select was answered NoUpstream
C18_Witness ==
    /\ server.startup = "NoneFound"
    /\ server.state = "running"
    /\ ~server.everOk
    /\ lastSelect = NoUpstream

\* some row of the table passes the filters of the settings
HasPassing == \E i \in DOMAIN repo : PassesFilters(repo[i], settings)

\* a Select of a selector whose Select is one critical section
SelectStep ==
    \/ RandomSelect
    \/ RoundRobinSelect
    \/ LeastConnSelect
    \/ TimeBasedSelect

NoReloading == \A rl \in Reloaders : server.reload[rl].pc = "idle"

\* C20: once a ReloadSettings has returned ok and none is in progress, the
\* server's selector and the handler's selector are the same object, the
\* one built and refreshed last, and the periodic refresh task refreshes
\* that object.
C20_ReloadSwap ==
    (server.reloaded /\ NoReloading) =>
        /\ server.selector = server.handler
        /\ server.handler = server.built
        /\ server.refreshed \in {NoObject, server.handler}

\* a ReloadSettings call that returns an error: no selector is left to
\* be swapped in
ReloadFailed ==
    /\ \E rl \in Reloaders : ReloadBuild(rl, ReloadedSettings)
    /\ NoReloading'

\* C36: a ReloadSettings that returns an error (the settings did not load,
\* or the new selector could not be built or refreshed) leaves the settings
\* of the authentication middleware and of the rate-limit middleware, the
\* handler's rotation settings, and the server's and the handler's selector
\* as they were before the call.
C36_FailedReloadKeeps ==
    [][(NoReloading /\ ReloadFailed) =>
          /\ server'.authMiddleware = server.authMiddleware
          /\ server'.rateLimitMw = server.rateLimitMw
          /\ server'.handlerSettings = server.handlerSettings
          /\ server'.selector = server.selector
          /\ server'.handler = server.handler]_vars

\* C27: once a Refresh of the rate-limited selector has returned ok (the
\* candidate list is not empty), a Select that began after the latest
\* Refresh works on members of the post-refresh list only: the list it picks
\* from holds none but current candidates, and the upstream it returns is a
\* current candidate, also when a Select that began before that Refresh
\* writes the cache after it.
C27_SelectAfterRefresh ==
    \A c \in Callers :
        (Len(proxies) > 0 /\ sel[c].fresh) =>
            /\ sel[c].pc = "pick" =>
                   Ids(sel[c].availableProxies) \subseteq Ids(proxies)
            /\ (sel[c].pc = "ret" /\ sel[c].result.kind = "proxy") =>
                   sel[c].result.id \in Ids(proxies)

\* C28: the rate-limited selector issues at most one grouped count query
\* per cache period: a Select that begins while the cache is valid goes to
\* the pick without a store query, and when a caller issues the grouped
\* query for an invalid cache, no other caller of the same period (no
\* Refresh since either began) has issued that query and still holds its
\* answer unwritten.
C28_OneQueryPerPeriod ==
    /\ [][\A c \in Callers :
             (BeginStep(c) /\ CacheValid(now, cacheExpiry, cache)) =>
                 sel'[c].pc \in {"pick", "ret"}
         ]_vars
    /\ [][\A c \in Callers :
             (QueryStep(c) /\ sel[c].fresh) =>
                 \A d \in Callers \ {c} : ~(sel[d].pc = "update" /\ sel[d].fresh)
         ]_vars

\* the place of upstream id in the list of ids L, 0 when it is not there
PlaceIn(L, id) == IF \E p \in 1..Len(L) : L[p] = id
                  THEN CHOOSE p \in 1..Len(L) : L[p] = id ELSE 0

EmptyUnexpired == Len(cache) = 0 /\ now < cacheExpiry

\* C30: an empty available list is never served from the cache: a Select
\* that begins while the cache is empty and cacheExpiry is still ahead
\* queries the store, and when no query fails and the store shows some
\* candidate with fewer than max_requests success records in the window,
\* that Select has a non-empty available list and returns an upstream.
C30_EmptyNotCached ==
    /\ [][\A c \in Callers :
             (BeginStep(c) /\ EmptyUnexpired /\ Len(proxies) > 0) =>
                 /\ sel'[c].pc = "query"
                 /\ ~sel'[c].cacheValid
         ]_vars
    /\ [][\A c \in Callers :
             (QueryStep(c) /\ EmptyUnexpired /\ sel'[c].storeErr = "none"
                  /\ \E id \in Ids(sel[c].allProxies) :
                         RecentSuccesses(id) < maxRequestsPerMinute) =>
                 Len(sel'[c].availableProxies) > 0
         ]_vars

\* C24: once Shutdown has closed the stop channel, both background loops
\* return in the end, and neither loop takes a tick (so no Refresh and no
\* CleanupLimiters starts) after the stop channel was closed.
C24_ShutdownStopsTasks ==
    /\ (server.stopChan = "closed") ~>
           (\A t \in server.tasks : server.loop[t] = "done")
    /\ [][\A t \in StartedTasks :
             (server.ticker[t].pending /\ ~server'.ticker[t].pending) =>
                 server.stopChan = "open"
         ]_vars

\* C25: at most one Sync call is past the in-progress guard at any time;
\* a Sync call that finds isSyncing set returns "sync already in progress"
\* and creates no status record and leaves the inventory alone; isSyncing
\* is set exactly while a call is past the guard, so it is false again
\* after every return, with or without error, and a later call can start.
C25_SyncGuard ==
    /\ [](/\ Cardinality({c \in SyncCallers : Inside(c)}) <= 1
          /\ IsSyncing <=> \E c \in SyncCallers : Inside(c))
    /\ [][\A c \in SyncCallers :
             /\ (server.sync.run[c].pc = "call" /\ server'.sync.run[c].pc # "call"
                     /\ IsSyncing) =>
                    /\ server'.sync.run[c] = [pc |-> "done", result |-> "busy"]
                    /\ server'.sync.statuses = server.sync.statuses
                    /\ server'.sync.inventory = server.sync.inventory
             /\ (server.sync.run[c].pc = "return"
                     /\ server'.sync.run[c].pc = "done") =>
                    ~server'.sync.isSyncing
         ]_vars

\* a call was turned away at the guard, the call that held it returned with
\* an error, and a later call is past the guard
C25_Witness ==
    \E c, d, e \in SyncCallers :
        /\ server.sync.run[c] = [pc |-> "done", result |-> "busy"]
        /\ server.sync.run[d] = [pc |-> "done", result |-> "fetch_failed"]
        /\ Inside(e)

\* C26: the manual sync endpoint answers 400 when no API key is configured,
\* 409 already_running whenever a sync is in progress, 200 started
\* otherwise; and the Sync call started for a 200 answer does not end with
\* "sync already in progress".
C26_ManualSync ==
    /\ [][\A h \in Requests :
             server'.sync.resp[h] # server.sync.resp[h] =>
                 server'.sync.resp[h] =
                     IF ~server.sync.hasAPIKey
                     THEN [code |-> StatusBadRequest, status |-> "error"]
                     ELSE IF IsSyncing
                     THEN [code |-> StatusConflict, status |-> "already_running"]
                     ELSE [code |-> StatusOK, status |-> "started"]
         ]_vars
    /\ [](\A h \in Requests :
             server.sync.resp[h].code = StatusOK =>
                 server.sync.run[h].result # "busy")

\* the request was handed to the forwarding handler or to the dial
Forwarded(h) ==
    \E k \in 1..Len(h.trace) : h.trace[k] \in {"HandleRequest", "ConnectDial"}

\* C21: for a CONNECT request and for a proxy request whose path is not a
\* rewrite path, the forwarding call (HandleRequest, or the dial of a
\* CONNECT) is made only after authentication answered continue and then
\* the rate limiter answered continue; when authentication answers with a
\* response, the rate limiter is not asked and nothing is forwarded.
C21_MiddlewareOrder ==
    LET h == server.http
    IN  (h.req.kind \in {"connect", "proxy"} /\ ~IsRewrite(h.req.path)) =>
            /\ Forwarded(h) =>
                   /\ h.auth = "continue"
                   /\ h.limit = "continue"
                   /\ Len(h.trace) = 3
                   /\ h.trace[1] = "auth"
                   /\ h.trace[2] = "limit"
            /\ h.auth = "deny" =>
                   /\ h.trace = <<"auth">>
                   /\ h.out = NoForward

\* a CONNECT passed both middlewares and was dialled; the state reached
\* from it by a proxy request that authentication turned away is the
\* other case
C21_Witness ==
    /\ server.http.req.kind = "connect"
    /\ server.http.trace = <<"auth", "limit", "ConnectDial">>

\* C22: a request whose path is /hyperliquid or begins with /hyperliquid/
\* is not authenticated, is turned away when the rate limiter answers with
\* a response, and is otherwise forwarded to https://api.hyperliquid.xyz
\* with the path after the prefix (or /), the query it came with, and the
\* target host as Host; no other request is sent to the target host.
C22_Rewrite ==
    LET h == server.http
    IN  /\ (h.req.kind = "direct" /\ IsRewrite(h.req.path)) =>
               /\ \A k \in 1..Len(h.trace) : h.trace[k] # "auth"
               /\ h.limit = "deny" => ~Forwarded(h) /\ h.out = NoForward
               /\ h.limit = "continue" =>
                      /\ Forwarded(h)
                      /\ h.out = [host |-> TargetHost,
                                  path |-> hyperliquidPath(h.req.path),
                                  query |-> h.req.query]
        /\ (h.req.kind # "none" /\ ~IsRewrite(h.req.path)) =>
               h.out.host # TargetHost

\* C23: GET /health sent to the listener is answered 200 with the JSON
\* body {status: ok}, and no forwarding call (so no Select) is made for it.
C23_Health ==
    LET h == server.http
    IN  (h.req.kind = "direct" /\ h.req.path = <<"/health">>) =>
            /\ h.resp = "health_ok"
            /\ ~Forwarded(h)

\* the status of a finished sync
Settled(row) == row.status \in {"SUCCESS", "FAILED"}

\* C31: a sync status record is created IN-PROGRESS; when Sync returns nil
\* the record is SUCCESS with ip_removed, ip_added and ip_replaced set, and
\* when Sync returns a fetch error it is FAILED; once the record is SUCCESS
\* or FAILED its status and its three ip columns never change again,
\* whatever the replacement goroutines do.
C31_StatusRecord ==
    [][LET old == server.job
           new == server'.job
       IN  /\ (old.row.status = "none" /\ new.row.status # "none") =>
                  new.row.status = "IN-PROGRESS"
           /\ (old.result = "none" /\ new.result = "nil") =>
                  /\ new.row.status = "SUCCESS"
                  /\ new.row.ipRemoved.set
                  /\ new.row.ipAdded.set
                  /\ new.row.ipReplaced.set
           /\ (old.result = "none"
                  /\ new.result \in {"fetch_failed", "fetch_rota_failed"}) =>
                  new.row.status = "FAILED"
           /\ Settled(old.row) =>
                  /\ new.row.status = old.row.status
                  /\ new.row.ipRemoved = old.row.ipRemoved
                  /\ new.row.ipAdded = old.row.ipAdded
                  /\ new.row.ipReplaced = old.row.ipReplaced
      ]_vars

\* C32: after Sync returned nil with no repository or API error during the
\* run, every address of the inventory is listed by the provider, every
\* proxy the provider marks valid is in the inventory, and no proxy the
\* provider marks invalid is in the inventory, also one that was not in
\* the inventory before the sync.
C32_Reconciled ==
    (Job.result = "nil" /\ ~Job.erred) =>
        \A a \in Addresses :
            /\ Job.rota[a] # "absent" => Job.provider[a] # "absent"
            /\ Job.provider[a] = "valid" => Job.rota[a] # "absent"
            /\ Job.provider[a] = "invalid" => Job.rota[a] = "absent"

\* C40: the status update of a run to SUCCESS or FAILED leaves the logs and
\* the error column of the record as they were, so that the entries addLog
\* and addError appended during the run are still there after it.
C40_UpdateKeepsEntries ==
    [][(/\ Len(Job.ops["sync"]) > 0
        /\ Job.ops["sync"][1].kind = "update"
        /\ server'.job.ops["sync"] # Job.ops["sync"]) =>
           /\ server'.job.row.logs = Job.row.logs
           /\ server'.job.row.error = Job.row.error
      ]_vars

\* a Start or Stop call is made in this step
CallStep == server'.scheduler.calls # server.scheduler.calls

\* C38: no sequence of Start and Stop calls on the scheduler panics (the
\* stop channel is closed at most once, also over Start, Stop, Start,
\* Stop), and a Start right after a Start, or a Stop right after a Stop,
\* has no effect.
C38_StartStopSafe ==
    /\ [](~Scheduler.panicked)
    /\ [][(CallStep /\ server'.scheduler.last = server.scheduler.last) =>
              server'.scheduler = [server.scheduler EXCEPT !.calls = @ + 1]
         ]_vars

\* a goroutine of run has not returned
Alive == \E i \in 1..Len(Scheduler.runs) : Scheduler.runs[i] # "exited"

\* C39: IsRunning() is false after a Start with interval <= 0 and after a
\* Stop, and it is not true while no goroutine of run is alive: not after
\* the loop exited because the context was cancelled, and not after a
\* Start that follows a Stop.
C39_IsRunning ==
    /\ [](IsRunning => Alive)
    /\ [][(CallStep /\ server'.scheduler.last = "Stop") =>
              ~server'.scheduler.running]_vars
    /\ [][(CallStep /\ server'.scheduler.last = "Start"
                    /\ Disabled(server.scheduler.interval)) =>
              ~server'.scheduler.running]_vars

\* the request passed client authentication
Authenticated(h) ==
    /\ h.auth = "continue"
    /\ \E k \in 1..Len(h.trace) : h.trace[k] = "auth"

\* C33: a request that is forwarded without having passed client
\* authentication is forwarded to the rewrite target, whatever its request
\* line: none is forwarded to a host the client chose.
C33_UnauthenticatedTarget ==
    LET h == server.http
    IN  (Forwarded(h) /\ ~Authenticated(h)) => h.out.host = TargetHost

\* a proxy request for a client-chosen host with a rewrite path, turned
\* away by authentication had it been asked, was forwarded to the target
C33_Witness ==
    /\ server.http.req.kind = "proxy"
    /\ server.http.auth = "deny"
    /\ Forwarded(server.http)
    /\ server.http.out.host = TargetHost

\* a Refresh of the handler's selector has returned ok
RefreshedOk == server.everOk \/ server.startup = "ok"

\* C34: a Refresh that returns an error (the load fails, or no upstream
\* passes the filters) leaves candidates, index, cache and cache expiry as
\* they were (no step that changes one of them is such a Refresh); so a
\* candidate list that is not empty never becomes empty, and after the
\* first Refresh that returned ok no Select reports NoUpstream (no step
\* that leaves NoUpstream as the result is a Select), even when the table
\* no longer holds a usable upstream.
C34_FailedRefreshKeeps ==
    /\ [][(/\ lastRefresh'.result # "ok"
            /\ <<proxies, index, currentIndex, cache, cacheExpiry>>' #
                   <<proxies, index, currentIndex, cache, cacheExpiry>>) =>
              ~TaskRefresh(BOOLEAN)]_vars
    /\ [][Len(proxies) > 0 => Len(proxies') > 0]_vars
    /\ [][RefreshedOk =>
              /\ lastSelect' = NoUpstream => ~SelectStep
              /\ \A c \in Callers : BeginStep(c) => sel'[c].result # NoUpstream
         ]_vars

\* a Refresh returned ok, every upstream has failed since, the Refresh
\* after that found none, and the candidates are still there
C34_Witness ==
    /\ server.everOk
    /\ \A i \in DOMAIN repo : repo[i].status = "failed"
    /\ lastRefresh.result = "NoneFound"
    /\ Len(proxies) > 0

\* C35: no Select indexes out of range, whatever Refresh does to the
\* candidate list in between: the index of the round-robin selector is
\* within the candidate list whenever the list is not empty, and the
\* position the rate-limited selector uses is within the available list
\* the call chooses from.
C35_IndexInRange ==
    /\ (method = "roundrobin" /\ Len(proxies) > 0) =>
           index \in 0..(Len(proxies) - 1)
    /\ method = "rate_limited" =>
           /\ currentIndex >= 0
           /\ \A c \in Callers :
                  sel[c].pc = "pick" =>
                      /\ Len(sel[c].availableProxies) > 0
                      /\ currentIndex % Len(sel[c].availableProxies)
                             \in 0..(Len(sel[c].availableProxies) - 1)

\* a rate-limited Select is about to pick from a list of two while a
\* Refresh has cut the candidates down to one
C35_Witness ==
    /\ method = "rate_limited"
    /\ sel["c1"].pc = "pick"
    /\ Len(sel["c1"].availableProxies) = 2
    /\ Len(proxies) = 1

\* C37: between two successful refreshes every Select of the
\* least-connections selector returns the same upstream, however many
\* requests the repository counts in between: a Select that follows a
\* Select with no Refresh in between returns what that one returned, the
\* choice is the first candidate with the fewest requests in the snapshot,
\* and nothing but a Refresh that returns ok changes the snapshot.
C37_SameBetweenRefreshes ==
    /\ [][(LeastConnSelect /\ lastRefresh = NoRefresh /\ lastSelect.kind = "proxy") =>
              lastSelect' = lastSelect]_vars
    /\ [][(LeastConnSelect /\ Len(proxies) > 0) =>
              \E k \in 1..Len(proxies) :
                 /\ lastSelect' = Returned(proxies[k])
                 /\ \A j \in 1..Len(proxies) :
                        /\ proxies[k].requests <= proxies[j].requests
                        /\ j < k => proxies[k].requests < proxies[j].requests]_vars
    /\ [][proxies' # proxies => (LeastConnRefresh /\ lastRefresh'.result = "ok")]_vars

\* Select returned a candidate for which the table has counted requests
\* since the snapshot, while another candidate has fewer in the table now
C37_Witness ==
    /\ method = "least_conn"
    /\ lastRefresh = NoRefresh
    /\ \E k \in 1..Len(proxies) : \E j \in 1..Len(proxies) :
          /\ lastSelect = Returned(proxies[k])
          /\ repo[proxies[k].id].requests > proxies[k].requests
          /\ repo[proxies[j].id].requests < repo[proxies[k].id].requests

\* C9: after a Refresh that returned ok, the candidate list is the table's
\* rows that pass the four rotation filters, ordered by address.
C9_RefreshExact ==
    lastRefresh.result = "ok" =>
        proxies = SortByAddress({repo[i] : i \in {j \in DOMAIN repo :
                                                     PassesFilters(repo[j], settings)}})

\* C10: after every Refresh call that read the table, also one that
\* returned an error, each candidate passes the rotation filters in the
\* table that call read.
C10_CandidatesPassFilters ==
    [][(RefreshStep /\ lastRefresh'.result \in {"ok", "NoneFound"}) =>
           \A k \in 1..Len(proxies') :
               PassesFilters(repo[proxies'[k].id], settings)
      ]_vars

====
